---- MODULE Spec2Model ----
(***************************************************************************)
(* Verification model of react-ai-chat-interface.                          *)
(*                                                                         *)
(* Part 1 (SpecHook, SpecTabs): the useLocalStorage hook of                *)
(* src/hooks/useLocalStorage.ts on the key "chat-messages".  SpecHook is   *)
(* one browser context making every kind of handler call; SpecTabs is two  *)
(* contexts sharing one localStorage and exchanging storage events.        *)
(* JSON.stringify and JSON.parse-with-reviver are modelled as conversions  *)
(* between JS values and JSON texts, React's state-update queue as the     *)
(* fold it performs when the component renders after an event handler.     *)
(*                                                                         *)
(* Part 2 (SpecHome, SpecUpgrade, SpecNotify): the Home page, one browser *)
(* tab.  SpecUpgrade follows the page across an increment of               *)
(* STORAGE_VERSION, SpecNotify adds the storage events raised by the       *)
(* writes of the other contexts of the origin.                             *)
(*                                                                         *)
(* Part 3 (SpecReply, SpecDerive): generateAgentReply of                   *)
(* src/utils/agent.ts and the counts its generators derive, a pure         *)
(* function of its arguments but for the id and the timestamp; the hash is *)
(* computed on 32-bit integers kept as two 16-bit halves.                  *)
(*                                                                         *)
(* Part 4 (SpecMigrate): migrateStorageData and createStorageData of       *)
(* src/hooks/useLocalStorage.ts.                                           *)
(*                                                                         *)
(* Part 5 (SpecAttach): the Attachments component of the Composer.         *)
(*                                                                         *)
(* Part 6 (SpecSound): playNotificationSound of                            *)
(* src/hooks/useNotificationSound.ts.                                      *)
(***************************************************************************)
EXTENDS Integers, Sequences, FiniteSets, TLC

\* ------------------------------------------------------------------ bounds
MaxNum == 3        \* numbers 0..MaxNum are the numeric values of the model
MaxBatch == 3      \* setter calls made synchronously by one event handler
MaxInbox == 1      \* storage events queued for one tab
MaxSends == 2      \* messages sent on the chat page

\* ------------------------------------------------------------ JS values
PlainText == "hi"
IsoText == "2024-01-15T10:00:00.000Z"

Num(n) == [t |-> "number", n |-> n]
Str(s) == [t |-> "string", s |-> s]
DateV(s) == [t |-> "Date", iso |-> s]
\* a plain object { text, timestamp, _schemaVersion? }; ver = "absent"
\* stands for an object without the _schemaVersion field
Obj(text, timestamp, ver) ==
    [t |-> "object", text |-> text, timestamp |-> timestamp, ver |-> ver]

\* ------------------------------------------------------------ JSON texts
JNum(n) == [j |-> "number", n |-> n]
JStr(s) == [j |-> "string", s |-> s]
JObj(text, timestamp, ver) ==
    [j |-> "object", text |-> text, timestamp |-> timestamp, ver |-> ver]
\* The ids, senders, statuses, option values and attachment names of the
\* model are strings that do not match the reviver's pattern: they are
\* carried through both conversions as they are.

\* a stored text that is not JSON
Raw(s) == [j |-> "raw", s |-> s]
CorruptText == Raw("invalid json {{{")
EmptyText == Raw("")
\* getItem's null / StorageEvent.newValue === null
NoItem == [j |-> "null"]

STORAGE_SCHEMA_VERSION == "1.0.0"

\* /^\d{4}-\d{2}-\d{2}T\d{2}:\d{2}:\d{2}.\d{3}Z$/.test(s), on the strings of
\* the model
DateRegexTest(s) == s = IsoText

\* JSON.stringify(v): a Date serialises through toJSON() to its ISO string,
\* so a Date and the string of its ISO text give the same JSON text
RECURSIVE Stringify(_)
Stringify(v) ==
    CASE v.t = "number" -> JNum(v.n)
      [] v.t = "string" -> JStr(v.s)
      [] v.t = "Date" -> JStr(v.iso)
      [] v.t = "object" ->
            JObj(Stringify(v.text), Stringify(v.timestamp), v.ver)
      [] v.t = "Message" ->
            [j |-> "Message", id |-> v.id, text |-> Stringify(v.text),
             sender |-> v.sender, timestamp |-> Stringify(v.timestamp),
             attachments |-> v.attachments, status |-> v.status,
             options |-> v.options]
      [] v.t = "Attachment" ->
            [j |-> "Attachment", id |-> v.id, name |-> v.name,
             size |-> v.size, type |-> v.type, mimeType |-> v.mimeType,
             uploadedAt |-> Stringify(v.uploadedAt)]
      [] v.t = "array" ->
            [j |-> "array",
             items |-> [i \in DOMAIN v.items |-> Stringify(v.items[i])]]
      [] v.t = "ChatOptions" ->
            [j |-> "ChatOptions", tone |-> v.tone,
             responseLength |-> v.responseLength, model |-> v.model]

\* the reviver: a string that looks like an ISO timestamp becomes a Date
Revive(s) == IF DateRegexTest(s) THEN DateV(s) ELSE Str(s)

\* JSON.parse(text, reviver); only called on texts that parse
RECURSIVE ParseValue(_)
ParseValue(x) ==
    CASE x.j = "number" -> Num(x.n)
      [] x.j = "string" -> Revive(x.s)
      [] x.j = "object" ->
            Obj(ParseValue(x.text), ParseValue(x.timestamp), x.ver)
      [] x.j = "Message" ->
            [t |-> "Message", id |-> x.id, text |-> ParseValue(x.text),
             sender |-> x.sender, timestamp |-> ParseValue(x.timestamp),
             attachments |-> x.attachments, status |-> x.status,
             options |-> x.options]
      [] x.j = "Attachment" ->
            [t |-> "Attachment", id |-> x.id, name |-> x.name,
             size |-> x.size, type |-> x.type, mimeType |-> x.mimeType,
             uploadedAt |-> ParseValue(x.uploadedAt)]
      [] x.j = "array" ->
            [t |-> "array",
             items |-> [i \in DOMAIN x.items |-> ParseValue(x.items[i])]]
      [] x.j = "ChatOptions" ->
            [t |-> "ChatOptions", tone |-> x.tone,
             responseLength |-> x.responseLength, model |-> x.model]

\* JSON.parse throws a SyntaxError on a text that is not JSON
ParseThrows(x) == x.j = "raw"

\* ---------------------------------------------------- the store's world
Tabs == {"A", "B"}            \* execution contexts sharing one localStorage
K == "chat-messages"          \* the key of the modelled hook
OtherKey == "chat-options"    \* a key that other hooks of the page write
Keys == {K, OtherKey}
InitialValue == Num(0)        \* the caller-supplied default of the hook

VARIABLES
    store,        \* localStorage: key -> stored text, or NoItem
    phase,        \* per tab: "unmounted", "browser", "server", "crashed"
    storedValue,  \* per tab: the hook's React state
    inbox,        \* per tab: storage events dispatched and not yet handled
    lastSaved,    \* the valueToStore of the setItem that wrote store[K]
    writers,      \* the tabs whose setValue has written store[K]
    lastOp        \* the operation that led to this state, with its inputs

storeVars == <<store, phase, storedValue, inbox, lastSaved, writers, lastOp>>

\* the state of the chat page (Home), part 2 of the model
VARIABLES
    messages,        \* the conversation: a sequence of Message values
    attachedFiles,   \* the Attachments of the message being composed
    options,         \* the active ChatOptions
    isTyping,        \* the typing indicator
    showClearDialog, \* the Clear Conversation dialog is open
    timers,          \* reply timers set and not yet fired
    idsUsed,         \* ids handed out by generateMessageId so far
    pageStore,       \* localStorage of the page: key -> stored text
    loaded,          \* the page is loaded
    homeOp           \* the operation that led to this state

homeVars == <<messages, attachedFiles, options, isTyping, showClearDialog,
              timers, idsUsed, pageStore, loaded, homeOp>>

\* the calls of the pure utilities, parts 3 and 4 of the model
VARIABLES
    replyCall,       \* the last call of generateAgentReply: inputs and result
    replyPrev,       \* the call before it, when it had the same inputs
    migrateCall      \* the last call of migrateStorageData / createStorageData

\* the state of the page's components and hooks outside Home
VARIABLES
    attachIds,        \* ids handed out by generateAttachmentId so far
    audioContextRef,  \* useNotificationSound: the ref, "null" or "context"
    soundCall,        \* the last call of playNotificationSound
    build             \* STORAGE_VERSION of the bundle the page last loaded

pageVars == <<attachIds, audioContextRef, soundCall, build>>
utilVars == <<replyCall, replyPrev, migrateCall, pageVars>>
NoCall == [kind |-> "none"]

NoSaved == [some |-> FALSE]
Saved(v) == [some |-> TRUE, v |-> v]

\* Load without the catch: the unparsable text itself becomes the value
LoadKeepsCorruptText(hasWindow, item, initialValue) ==
    IF ~hasWindow THEN initialValue
    ELSE IF item = NoItem \/ item = EmptyText THEN initialValue
    ELSE IF ParseThrows(item) THEN Str(item.s)
    ELSE ParseValue(item)

\* useState initialiser of the hook: the first read of the key
Load(hasWindow, item, initialValue) ==
    IF ~hasWindow THEN initialValue
    ELSE IF item = NoItem \/ item = EmptyText THEN initialValue   \* !item
    ELSE IF ParseThrows(item) THEN initialValue                   \* catch
    ELSE ParseValue(item)

\* ---- the calls an event handler makes on the hook
SetOp(v, fails) == [op |-> "set", v |-> v, fails |-> fails]
FnOp(fails) == [op |-> "fn", f |-> "inc", fails |-> fails]
ClearOp == [op |-> "clear"]
IsWrite(o) == o.op \in {"set", "fn"}

\* the functional update prev => prev + 1
Inc(prev) == Num(prev.n + 1)
IncDefined(prev) == prev.t = "number" /\ prev.n < MaxNum

\* value instanceof Function ? value(prevValue) : value
ValueToStore(o, prevValue) == IF o.op = "fn" THEN Inc(prevValue) ELSE o.v

SetMut(v) == [m |-> "set", v |-> v]
RemoveMut == [m |-> "remove"]

\* React renders the component after the handler: the queued updates are
\* applied in call order, each to the state the previous one returned.  An
\* updater passed by setValue writes localStorage when it runs; one whose
\* setItem throws makes the render throw.  The first update of the handler
\* may have been computed eagerly at call time (hasEagerState): it is then
\* not run again.  r = [mem, crashed, ok, writes].
RECURSIVE ProcessQueue(_, _, _, _, _)
ProcessQueue(ops, i, eager, hasWindow, r) ==
    IF i > Len(ops) \/ r.crashed \/ ~r.ok THEN r
    ELSE LET o == ops[i] IN
         IF o.op = "clear"
         THEN ProcessQueue(ops, i + 1, eager, hasWindow,
                           [r EXCEPT !.mem = InitialValue])
         ELSE IF o.op = "fn" /\ ~IncDefined(r.mem)
         THEN [r EXCEPT !.ok = FALSE]
         ELSE LET v == ValueToStore(o, r.mem) IN
              IF hasWindow /\ o.fails THEN [r EXCEPT !.crashed = TRUE]
              ELSE IF ~hasWindow \/ (i = 1 /\ eager)
              THEN ProcessQueue(ops, i + 1, eager, hasWindow,
                                [r EXCEPT !.mem = v])
              ELSE ProcessQueue(ops, i + 1, eager, hasWindow,
                                [r EXCEPT !.mem = v,
                                          !.writes = Append(@, SetMut(v))])

\* dispatchSetState computes the first update of a handler eagerly when
\* the fiber has no pending work: the updater, and its setItem, then runs
\* at call time; an exception it throws there is suppressed
EagerMuts(ops, eager, prevValue) ==
    IF eager /\ IsWrite(ops[1]) /\ ~ops[1].fails
       /\ (ops[1].op = "fn" => IncDefined(prevValue))
    THEN <<SetMut(ValueToStore(ops[1], prevValue))>>
    ELSE <<>>

\* clearValue removes the item at call time
RECURSIVE RemoveMuts(_)
RemoveMuts(ops) ==
    IF ops = <<>> THEN <<>>
    ELSE (IF Head(ops).op = "clear" THEN <<RemoveMut>> ELSE <<>>)
         \o RemoveMuts(Tail(ops))

\* the storage mutations on key k in the order they happen;
\* s = [item, events, saved].  A mutation that changes the stored text
\* dispatches a storage event to the other contexts
RECURSIVE ApplyMuts(_, _, _)
ApplyMuts(muts, k, s) ==
    IF muts = <<>> THEN s
    ELSE LET m == Head(muts)
             new == IF m.m = "remove" THEN NoItem ELSE Stringify(m.v)
         IN ApplyMuts(Tail(muts), k,
               [item |-> new,
                events |-> IF new = s.item THEN s.events
                           ELSE Append(s.events, [key |-> k, newValue |-> new]),
                saved |-> IF m.m = "remove" THEN NoSaved ELSE Saved(m.v)])

\* events reach the tabs that have the listener registered
Dispatch(t, events) ==
    [u \in Tabs |-> IF u # t /\ phase[u] = "browser"
                    THEN inbox[u] \o events ELSE inbox[u]]
CanDispatch(t, events) ==
    \A u \in Tabs :
        (u # t /\ phase[u] = "browser") =>
            Len(inbox[u]) + Len(events) <= MaxInbox

\* ---- inputs
InputValues ==
    { Str(PlainText), Str(IsoText),
      Obj(Str(PlainText), DateV(IsoText), "absent"),
      Obj(Str(PlainText), DateV(IsoText), "99.0.0") }
SingleOps ==
    {SetOp(v, f) : v \in InputValues, f \in BOOLEAN}
    \cup {FnOp(f) : f \in BOOLEAN} \cup {ClearOp}
BatchOps == {FnOp(FALSE), FnOp(TRUE), ClearOp}
Batches ==
    {<<o>> : o \in SingleOps}
    \cup UNION {[1..n -> BatchOps] : n \in 2..MaxBatch}
\* the calls of the handlers of the two-context specification
TabOps ==
    { SetOp(Str(IsoText), FALSE), SetOp(Str(IsoText), TRUE),
      SetOp(Obj(Str(PlainText), DateV(IsoText), "99.0.0"), FALSE),
      ClearOp }
\* whether the first update was computed eagerly changes the outcome only
\* when other calls follow it
HandlerInputs ==
    {<<ops, FALSE>> : ops \in Batches}
    \cup {<<ops, TRUE>> : ops \in {b \in Batches : Len(b) > 1 /\ IsWrite(b[1])}}
\* texts that code other than the hook leaves under the hook's key
ForeignItems == { CorruptText, EmptyText }

\* ------------------------------------------------------------- actions
\* the page (re)loads in tab t and the hook is initialised
Mount(t, hasWindow) ==
    /\ storedValue' = [storedValue EXCEPT
                          ![t] = Load(hasWindow, store[K], InitialValue)]
    /\ phase' = [phase EXCEPT
                    ![t] = IF hasWindow THEN "browser" ELSE "server"]
    /\ inbox' = [inbox EXCEPT ![t] = <<>>]
    /\ lastOp' = [kind |-> "mount", tab |-> t, item |-> store[K],
                  hasWindow |-> hasWindow]
    /\ UNCHANGED <<store, lastSaved, writers>>
    /\ UNCHANGED <<homeVars, utilVars>>

\* an event handler of tab t calls setValue / clearValue as listed in ops,
\* and React renders the component
HandlerStep(t, ops, eager) ==
    /\ phase[t] = "browser"
    /\ LET hasWindow == TRUE
           r == ProcessQueue(ops, 1, eager, hasWindow,
                   [mem |-> storedValue[t], crashed |-> FALSE, ok |-> TRUE,
                    writes |-> <<>>])
           muts == IF hasWindow
                   THEN EagerMuts(ops, eager, storedValue[t])
                        \o RemoveMuts(ops) \o r.writes
                   ELSE <<>>
           s == ApplyMuts(muts, K, [item |-> store[K], events |-> <<>>,
                                    saved |-> lastSaved])
       IN /\ r.ok
          /\ CanDispatch(t, s.events)
          /\ store' = [store EXCEPT ![K] = s.item]
          /\ lastSaved' = s.saved
          /\ writers' = IF \E i \in 1..Len(muts) : muts[i].m = "set"
                        THEN writers \cup {t} ELSE writers
          /\ storedValue' = [storedValue EXCEPT
                                ![t] = IF r.crashed THEN InitialValue ELSE r.mem]
          /\ phase' = [phase EXCEPT ![t] = IF r.crashed THEN "crashed" ELSE @]
          /\ inbox' = [u \in Tabs |->
                          IF u = t /\ r.crashed THEN <<>>
                          ELSE Dispatch(t, s.events)[u]]
    /\ UNCHANGED <<homeVars, utilVars>>

Handler(t, ops, eager) ==
    /\ HandlerStep(t, ops, eager)
    /\ lastOp' = [kind |-> "handler", tab |-> t, ops |-> ops,
                  eager |-> eager, before |-> storedValue[t]]

\* a handler that makes one call; its inputs are not recorded
TabHandler(t, o) ==
    /\ HandlerStep(t, <<o>>, FALSE)
    /\ lastOp' = [kind |-> "handler", tab |-> t]

\* handleStorageChange without the test of e.key
HandleStorageChangeAnyKey(e, cur) ==
    IF e.newValue # NoItem
    THEN IF ParseThrows(e.newValue) THEN cur ELSE ParseValue(e.newValue)
    ELSE cur

\* handleStorageChange whose catch resets the value to the default
HandleStorageChangeResets(e, cur) ==
    IF e.key = K /\ e.newValue # NoItem
    THEN IF ParseThrows(e.newValue) THEN InitialValue
         ELSE ParseValue(e.newValue)
    ELSE cur

\* handleStorageChange
HandleStorageChange(e, cur) ==
    IF e.key = K /\ e.newValue # NoItem
    THEN IF ParseThrows(e.newValue) THEN cur ELSE ParseValue(e.newValue)
    ELSE cur

\* the browser delivers the oldest pending storage event to tab t
StorageEvent(t) ==
    /\ phase[t] = "browser"
    /\ inbox[t] # <<>>
    /\ storedValue' = [storedValue EXCEPT
                          ![t] = HandleStorageChange(Head(inbox[t]), @)]
    /\ inbox' = [inbox EXCEPT ![t] = Tail(@)]
    /\ lastOp' = [kind |-> "storage", tab |-> t, e |-> Head(inbox[t]),
                  before |-> storedValue[t]]
    /\ UNCHANGED <<store, phase, lastSaved, writers>>
    /\ UNCHANGED <<homeVars, utilVars>>

\* code of tab t other than the modelled hook writes localStorage: another
\* hook of the page under its own key, or a script under the hook's key
ForeignWrite(t, k, item) ==
    /\ phase[t] = "browser"
    /\ item # store[k]
    /\ CanDispatch(t, <<[key |-> k, newValue |-> item]>>)
    /\ store' = [store EXCEPT ![k] = item]
    /\ inbox' = Dispatch(t, <<[key |-> k, newValue |-> item]>>)
    /\ lastSaved' = IF k = K THEN NoSaved ELSE lastSaved
    /\ lastOp' = [kind |-> "foreign", tab |-> t]
    /\ UNCHANGED <<phase, storedValue, writers>>
    /\ UNCHANGED <<homeVars, utilVars>>

\* one context: every handler input, no other tab
NextHook ==
    \/ \E hasWindow \in BOOLEAN : Mount("A", hasWindow)
    \/ \E in \in HandlerInputs : Handler("A", in[1], in[2])
    \/ \E item \in ForeignItems : ForeignWrite("A", K, item)

\* two browser contexts: handlers that make one call
NextTabs ==
    \/ \E t \in Tabs : Mount(t, TRUE)
    \/ \E t \in Tabs, o \in TabOps : TabHandler(t, o)
    \/ \E t \in Tabs : StorageEvent(t)
    \/ \E t \in Tabs : ForeignWrite(t, K, CorruptText)
    \/ \E t \in Tabs, item \in {JStr(PlainText), NoItem} :
          ForeignWrite(t, OtherKey, item)

\* ------------------------------------------------- the chat page (Home)
(***************************************************************************)
(* Part 2 (SpecHome): the Home page, one browser tab.  Its four           *)
(* useLocalStorage hooks persist under their own keys into pageStore; a   *)
(* page load initialises them with Load.                                  *)
(***************************************************************************)
STORAGE_VERSION == "3.0.0"
VersionKey == "chat-storage-version"
AttachmentsKey == "chat-attachments"
PageKeys == {K, AttachmentsKey, OtherKey, VersionKey}

ChatOptions(tone, responseLength, model) ==
    [t |-> "ChatOptions", tone |-> tone, responseLength |-> responseLength,
     model |-> model]
DEFAULT_CHAT_OPTIONS == ChatOptions("professional", "medium", "gpt-4")
\* a Message built without an options property
NoOptions == ChatOptions("undefined", "undefined", "undefined")
\* what the options panel can hand to setOptions
OptionChoices == {DEFAULT_CHAT_OPTIONS, ChatOptions("friendly", "short", "gpt-4")}
\* what the user types
Texts == {PlainText, IsoText}
Now == DateV(IsoText)     \* new Date(): the clock is one instant

Message(id, text, sender, attachments, status, opts) ==
    [t |-> "Message", id |-> id, text |-> text, sender |-> sender,
     timestamp |-> Now, attachments |-> attachments, status |-> status,
     options |-> opts]
Arr(items) == [t |-> "array", items |-> items]

NumDefaults == 7
defaultMessages ==
    [i \in 1..NumDefaults |->
        Message(i, Str("default"), IF i % 2 = 1 THEN "agent" ELSE "user",
                <<>>, "delivered", NoOptions)]

\* the text of the simulated reply
ReplyText(o) ==
    Str("Thanks for your message! I'm processing your request with "
        \o o.tone \o " tone and " \o o.responseLength
        \o " length using " \o o.model \o "...")

\* setValue of one of the page's hooks, the write succeeding
Persist(st, k, v) == [st EXCEPT ![k] = Stringify(v)]

\* nothing is stored, no page is loaded
Init ==
    /\ store = [k \in Keys |-> NoItem]
    /\ phase = [t \in Tabs |-> "unmounted"]
    /\ storedValue = [t \in Tabs |-> InitialValue]
    /\ inbox = [t \in Tabs |-> <<>>]
    /\ lastSaved = NoSaved
    /\ writers = {}
    /\ lastOp = [kind |-> "init"]
    /\ messages = <<>>
    /\ attachedFiles = <<>>
    /\ options = DEFAULT_CHAT_OPTIONS
    /\ isTyping = FALSE
    /\ showClearDialog = FALSE
    /\ timers = {}
    /\ idsUsed = NumDefaults
    /\ loaded = FALSE
    /\ homeOp = [kind |-> "init"]
    /\ pageStore = [k \in PageKeys |-> NoItem]
    /\ replyCall = NoCall
    /\ replyPrev = NoCall
    /\ migrateCall = NoCall
    /\ attachIds = 0
    /\ audioContextRef = "null"
    /\ soundCall = NoCall
    /\ build = "none"

\* the bundles deployed so far, oldest first ("Increment this to force
\* reset"); the last one is the bundle of the source
Builds == <<"2.0.0", STORAGE_VERSION>>

\* the page (re)loads from a bundle whose STORAGE_VERSION is buildVersion:
\* the hooks are initialised, then the effect that compares the stored
\* version with STORAGE_VERSION runs.  A browser is never served an older
\* bundle than the one it ran before.
HomeLoadBuild(buildVersion) ==
    LET msgs == Load(TRUE, pageStore[K], Arr(defaultMessages)).items
        files == Load(TRUE, pageStore[AttachmentsKey], Arr(<<>>)).items
        opts == Load(TRUE, pageStore[OtherKey], DEFAULT_CHAT_OPTIONS)
        version == Load(TRUE, pageStore[VersionKey], Str(buildVersion))
        reset == version # Str(buildVersion)
    IN /\ \/ build = "none"
          \/ \E i \in DOMAIN Builds : \E j \in i..Len(Builds) :
                build = Builds[i] /\ buildVersion = Builds[j]
       /\ build' = buildVersion
       /\ messages' = IF reset THEN defaultMessages ELSE msgs
       /\ attachedFiles' = IF reset THEN <<>> ELSE files
       /\ options' = IF reset THEN DEFAULT_CHAT_OPTIONS ELSE opts
       /\ pageStore' =
             IF reset
             THEN [k \in PageKeys |->
                     CASE k = K -> Stringify(Arr(defaultMessages))
                       [] k = AttachmentsKey -> Stringify(Arr(<<>>))
                       [] k = OtherKey -> Stringify(DEFAULT_CHAT_OPTIONS)
                       [] k = VersionKey -> JStr(buildVersion)]
             ELSE pageStore
       /\ isTyping' = FALSE
       /\ showClearDialog' = FALSE
       /\ timers' = {}
       /\ loaded' = TRUE
       /\ homeOp' = [kind |-> "load"]
       /\ UNCHANGED idsUsed
       /\ UNCHANGED <<storeVars, replyCall, replyPrev, migrateCall,
                      attachIds, audioContextRef, soundCall>>

\* the page (re)loads from the bundle of the source
HomeLoad == HomeLoadBuild(STORAGE_VERSION)

\* Composer.handleSend -> handleSendMessage(text, options, attachments)
HandleSendMessage(text) ==
    /\ loaded
    /\ idsUsed + 2 <= NumDefaults + 2 * MaxSends
    /\ LET userMessage == Message(idsUsed + 1, Str(text), "user",
                                  attachedFiles, "sent", options)
       IN /\ messages' = Append(messages, userMessage)
          /\ pageStore' =
                Persist(Persist(pageStore, K, Arr(messages')),
                        AttachmentsKey, Arr(<<>>))
          /\ timers' = timers \cup {[uid |-> idsUsed + 1, options |-> options]}
          /\ homeOp' = [kind |-> "send", id |-> idsUsed + 1]
    /\ attachedFiles' = <<>>
    /\ isTyping' = TRUE
    /\ idsUsed' = idsUsed + 1
    /\ UNCHANGED <<options, showClearDialog, loaded>>
    /\ UNCHANGED <<storeVars, utilVars>>

\* the callback handleSendMessage passed to setTimeout
ReplyTimer(tm) ==
    /\ loaded
    /\ tm \in timers
    /\ LET agentMessage == Message(idsUsed + 1, ReplyText(tm.options),
                                   "agent", <<>>, "delivered", tm.options)
       IN /\ messages' = Append(messages, agentMessage)
          /\ pageStore' = Persist(pageStore, K, Arr(messages'))
          /\ homeOp' = [kind |-> "reply", id |-> idsUsed + 1, uid |-> tm.uid]
    /\ isTyping' = FALSE
    /\ timers' = timers \ {tm}
    /\ idsUsed' = idsUsed + 1
    /\ UNCHANGED <<attachedFiles, options, showClearDialog, loaded>>
    /\ UNCHANGED <<storeVars, utilVars>>

\* onOptionsChange = setOptions
SetOptions(o) ==
    /\ loaded
    /\ o # options
    /\ options' = o
    /\ pageStore' = Persist(pageStore, OtherKey, o)
    /\ homeOp' = [kind |-> "options"]
    /\ UNCHANGED <<messages, attachedFiles, isTyping, showClearDialog,
                   timers, idsUsed, loaded>>
    /\ UNCHANGED <<storeVars, utilVars>>

\* the handler registered with the app shell, and the dialog's Cancel
SetShowClearDialog(b) ==
    /\ loaded
    /\ showClearDialog # b
    /\ showClearDialog' = b
    /\ homeOp' = [kind |-> "dialog"]
    /\ UNCHANGED <<messages, attachedFiles, options, isTyping, timers,
                   idsUsed, pageStore, loaded>>
    /\ UNCHANGED <<storeVars, utilVars>>

\* the dialog's Clear All
HandleClearConversation ==
    /\ loaded
    /\ showClearDialog
    /\ messages' = defaultMessages
    /\ attachedFiles' = <<>>
    /\ options' = DEFAULT_CHAT_OPTIONS
    /\ showClearDialog' = FALSE
    /\ pageStore' =
          Persist(Persist(Persist(pageStore, K, Arr(defaultMessages)),
                          AttachmentsKey, Arr(<<>>)),
                  OtherKey, DEFAULT_CHAT_OPTIONS)
    /\ homeOp' = [kind |-> "clear"]
    /\ UNCHANGED <<isTyping, timers, idsUsed, loaded>>
    /\ UNCHANGED <<storeVars, utilVars>>

NextHome ==
    \/ HomeLoad
    \/ \E text \in Texts : HandleSendMessage(text)
    \/ \E tm \in timers : ReplyTimer(tm)
    \/ \E o \in OptionChoices : SetOptions(o)
    \/ \E b \in BOOLEAN : SetShowClearDialog(b)
    \/ HandleClearConversation

\* another execution context of the origin (a second tab of the page, any
\* other script) writes localStorage; the browser queues a storage event
\* for the page, which is tab "A"
OtherContextWrite(key, item) ==
    /\ loaded
    /\ item # pageStore[key]
    /\ Len(inbox["A"]) < MaxInbox
    /\ pageStore' = [pageStore EXCEPT ![key] = item]
    /\ inbox' = [inbox EXCEPT !["A"] =
                    Append(@, [key |-> key, newValue |-> item])]
    /\ homeOp' = [kind |-> "other", key |-> key]
    /\ UNCHANGED <<messages, attachedFiles, options, isTyping,
                   showClearDialog, timers, idsUsed, loaded>>
    /\ UNCHANGED <<store, phase, storedValue, lastSaved, writers, lastOp>>
    /\ UNCHANGED utilVars

\* the browser delivers the oldest pending storage event to the page: the
\* handleStorageChange of each of the four hooks sees it, the hook of the
\* event's key takes the parsed value, and the page renders; when the value
\* taken is a storageVersion other than STORAGE_VERSION the version effect
\* runs as on a load
HomeStorageEvent ==
    /\ loaded
    /\ inbox["A"] # <<>>
    /\ LET e == Head(inbox["A"])
           taken(key) ==
               /\ e.key = key
               /\ e.newValue # NoItem
               /\ ~ParseThrows(e.newValue)
           storageVersion ==
               IF taken(VersionKey) THEN ParseValue(e.newValue)
               ELSE Str(build)
           reset == storageVersion # Str(build)
       IN /\ messages' = IF reset THEN defaultMessages
                         ELSE IF taken(K) THEN ParseValue(e.newValue).items
                         ELSE messages
          /\ attachedFiles' =
                IF reset THEN <<>>
                ELSE IF taken(AttachmentsKey)
                THEN ParseValue(e.newValue).items
                ELSE attachedFiles
          /\ options' = IF reset THEN DEFAULT_CHAT_OPTIONS
                        ELSE IF taken(OtherKey) THEN ParseValue(e.newValue)
                        ELSE options
          /\ pageStore' =
                IF reset
                THEN [k \in PageKeys |->
                        CASE k = K -> Stringify(Arr(defaultMessages))
                          [] k = AttachmentsKey -> Stringify(Arr(<<>>))
                          [] k = OtherKey -> Stringify(DEFAULT_CHAT_OPTIONS)
                          [] k = VersionKey -> JStr(build)]
                ELSE pageStore
          /\ homeOp' = [kind |-> "storage", e |-> e, reset |-> reset]
    /\ inbox' = [inbox EXCEPT !["A"] = Tail(@)]
    /\ UNCHANGED <<isTyping, showClearDialog, timers, idsUsed, loaded>>
    /\ UNCHANGED <<store, phase, storedValue, lastSaved, writers, lastOp>>
    /\ UNCHANGED utilVars

\* ------------------------------------- the Attachments component (part 5)
(***************************************************************************)
(* Part 5 (SpecAttach): the Attachments component inside the Composer of  *)
(* the Home page: files picked in the file input are validated and        *)
(* appended to the pending attachments, chips remove them, a send moves   *)
(* them into the user message.                                            *)
(***************************************************************************)
MaxPicked == 6     \* files picked into the pending list over a run

MAX_ATTACHMENT_SIZE == 10485760      \* 10 * 1024 * 1024
MAX_ATTACHMENTS == 5
maxFiles == 5                        \* the default of the maxFiles prop
SUPPORTED_FILE_TYPES ==
    {"image/jpeg", "image/png", "image/gif", "image/webp", "application/pdf",
     "text/plain", "application/msword",
     "application/vnd.openxmlformats-officedocument.wordprocessingml.document",
     "audio/mpeg", "audio/wav", "video/mp4", "video/webm"}

\* utils/format: a size passes when it does not exceed the limit
validateFileSize(size, maxSize) == size <= maxSize
\* utils/format: a MIME type passes when it is one of the allowed types
validateFileType(mimeType, allowedTypes) == mimeType \in allowedTypes

\* validateFiles without the test of the total: each file is judged alone
validateFilesEachAlone(attachments, files) ==
    LET ok(f) == /\ validateFileSize(f.size, MAX_ATTACHMENT_SIZE)
                 /\ validateFileType(f.type, SUPPORTED_FILE_TYPES)
    IN [valid |-> SelectSeq(files, ok),
        errors |-> SelectSeq(files, LAMBDA f : ~ok(f))]

\* validateFiles, with the attachments of the render it was created in:
\* the valid files, and one error for the total or one per rejected file
validateFiles(attachments, files) ==
    LET sizeOk(f) == validateFileSize(f.size, MAX_ATTACHMENT_SIZE)
        typeOk(f) == validateFileType(f.type, SUPPORTED_FILE_TYPES)
        errorOf(f) == [kind |-> IF ~sizeOk(f) THEN "size" ELSE "type",
                       name |-> f.name]
        rejected == SelectSeq(files, LAMBDA f : ~sizeOk(f) \/ ~typeOk(f))
    IN IF Len(attachments) + Len(files) > maxFiles
       THEN [valid |-> <<>>,
             errors |-> <<[kind |-> "total", name |-> ""]>>]
       ELSE [valid |-> SelectSeq(files, LAMBDA f : sizeOk(f) /\ typeOk(f)),
             errors |-> [i \in DOMAIN rejected |-> errorOf(rejected[i])]]

\* ---- what the user picks in the file dialog
\* a file of exactly 10 MB and of a supported type alone or several times,
\* and files the validation has to refuse, alone or after a good one
FileLists ==
    LET good == [name |-> "a.png", size |-> MAX_ATTACHMENT_SIZE,
                 type |-> "image/png"]
        bad == {[name |-> "c.png", size |-> MAX_ATTACHMENT_SIZE + 1,
                 type |-> "image/png"],
                [name |-> "d.zip", size |-> 1024,
                 type |-> "application/zip"],
                [name |-> "e", size |-> 1024, type |-> ""]}
    IN {[i \in 1..n |-> good] : n \in 0..(maxFiles + 1)}
       \cup {<<f>> : f \in bad} \cup {<<good, f>> : f \in bad}

\* handleFileSelect -> processFiles -> onAttachmentsChange(prev => ...);
\* the attachment's category comes from utils/format's
\* getAttachmentTypeFromMime, its id from generateAttachmentId
HandleFileSelect(files) ==
    /\ loaded
    /\ attachIds + Len(files) <= MaxPicked
    /\ LET checked == validateFiles(attachedFiles, files)
           typeFromMime(m) ==
               CASE m = "image/png" -> "image"
                 [] m = "application/pdf" -> "document"
                 [] OTHER -> "other"
           newAttachments ==
               [i \in DOMAIN checked.valid |->
                   [t |-> "Attachment", id |-> attachIds + i,
                    name |-> checked.valid[i].name,
                    size |-> checked.valid[i].size,
                    type |-> typeFromMime(checked.valid[i].type),
                    mimeType |-> checked.valid[i].type,
                    uploadedAt |-> Now]]
       IN IF Len(attachedFiles) >= 5
          THEN /\ homeOp' = [kind |-> "select", added |-> 0,
                             error |-> <<[kind |-> "full", name |-> ""]>>]
               /\ UNCHANGED <<attachedFiles, pageStore, attachIds>>
          ELSE IF checked.errors # <<>>
          THEN /\ homeOp' = [kind |-> "select", added |-> 0,
                             error |-> checked.errors]
               /\ UNCHANGED <<attachedFiles, pageStore, attachIds>>
          ELSE /\ homeOp' = [kind |-> "select",
                             added |-> Len(newAttachments), error |-> <<>>]
               /\ attachIds' = attachIds + Len(newAttachments)
               /\ IF newAttachments # <<>>
                  THEN /\ attachedFiles' = attachedFiles \o newAttachments
                       /\ pageStore' = Persist(pageStore, AttachmentsKey,
                                               Arr(attachedFiles'))
                  ELSE UNCHANGED <<attachedFiles, pageStore>>
    /\ UNCHANGED <<messages, options, isTyping, showClearDialog, timers,
                   idsUsed, loaded>>
    /\ UNCHANGED <<storeVars, replyCall, replyPrev, migrateCall,
                   audioContextRef, soundCall, build>>

\* the chip's onDelete -> handleRemove(attachment.id)
HandleRemove(attachmentId) ==
    /\ loaded
    /\ \E i \in DOMAIN attachedFiles : attachedFiles[i].id = attachmentId
    /\ attachedFiles' =
          SelectSeq(attachedFiles, LAMBDA att : att.id # attachmentId)
    /\ pageStore' = Persist(pageStore, AttachmentsKey, Arr(attachedFiles'))
    /\ homeOp' = [kind |-> "remove", id |-> attachmentId]
    /\ UNCHANGED <<messages, options, isTyping, showClearDialog, timers,
                   idsUsed, loaded>>
    /\ UNCHANGED <<storeVars, utilVars>>

\* Composer.handleSend: a message is sent when it has a text or pending
\* attachments; onSend is handleSendMessage, and the pending list is
\* emptied once more by onAttachmentsChange([]).  A send with a text does
\* to the pending list what a send without one does, so this part sends
\* the messages that have attachments only.
ComposerHandleSend(trimmedMessage) ==
    /\ trimmedMessage # "" \/ Len(attachedFiles) > 0
    /\ HandleSendMessage(trimmedMessage)


\* --------------------------------------- useNotificationSound (part 6)
(***************************************************************************)
(* Part 6 (SpecSound): playNotificationSound of                            *)
(* src/hooks/useNotificationSound.ts.  The browser decides which of the    *)
(* Web Audio calls of the try block throws, if any.                        *)
(***************************************************************************)
MaxPlays == 3      \* calls of playNotificationSound

\* the browser at one call: is there a window, which constructor does it
\* have, and which statement of the try block throws after window was read
\* ("none": no statement throws)
AudioEnvs ==
    [window : BOOLEAN,
     audioClass : {"AudioContext", "webkitAudioContext", "undefined"},
     throwsAt : {"new", "createOscillator", "createGain", "connect",
                 "connectDestination", "frequency.setValueAtTime",
                 "frequency.exponentialRampToValueAtTime",
                 "gain.setValueAtTime", "gain.linearRampToValueAtTime",
                 "gain.exponentialRampToValueAtTime", "start", "stop",
                 "none"}]

\* playNotificationSound with the try block ending after the creation of
\* the context: what the later calls throw reaches the caller
playNotificationSoundShortTry(ref, env) ==
    LET create == ref = "null"
        failedAt ==
            IF create /\ ~env.window THEN "window"
            ELSE IF create /\ (env.audioClass = "undefined"
                               \/ env.throwsAt = "new") THEN "new"
            ELSE IF env.throwsAt \notin {"new", "none"} THEN env.throwsAt
            ELSE "none"
        caught == failedAt \in {"window", "new"}
    IN [ref |-> IF create /\ ~caught THEN "context" ELSE ref,
        failedAt |-> failedAt,
        warns |-> IF caught
                  THEN <<"Unable to play notification sound:">> ELSE <<>>,
        thrown |-> failedAt # "none" /\ ~caught,
        started |-> failedAt \in {"stop", "none"}]

\* playNotificationSound: the ref after the call, the statement that threw,
\* the console, whether an exception reached the caller, and whether the
\* oscillator was started
playNotificationSound(ref, env) ==
    LET create == ref = "null"
        failedAt ==
            IF create /\ ~env.window THEN "window"
            ELSE IF create /\ (env.audioClass = "undefined"
                               \/ env.throwsAt = "new") THEN "new"
            ELSE IF env.throwsAt \notin {"new", "none"} THEN env.throwsAt
            ELSE "none"
    IN [ref |-> IF create /\ failedAt \notin {"window", "new"}
                THEN "context" ELSE ref,
        failedAt |-> failedAt,
        warns |-> IF failedAt # "none"
                  THEN <<"Unable to play notification sound:">> ELSE <<>>,
        thrown |-> FALSE,
        started |-> failedAt \in {"stop", "none"}]

PlayNotificationSound(env) ==
    /\ (IF soundCall = NoCall THEN 0 ELSE soundCall.n) < MaxPlays
    /\ LET out == playNotificationSound(audioContextRef, env)
       IN /\ audioContextRef' = out.ref
          /\ soundCall' = [kind |-> "play",
                           n |-> IF soundCall = NoCall THEN 1
                                 ELSE soundCall.n + 1,
                           before |-> audioContextRef, env |-> env,
                           out |-> out]
    /\ UNCHANGED <<attachIds, build, replyCall, replyPrev, migrateCall>>
    /\ UNCHANGED <<storeVars, homeVars>>


\* ------------------------------------------- the reply engine (agent.ts)
\* str.charCodeAt(0 .. str.length - 1) of the strings of the model
CharCodes(s) ==
    CASE s = "help with react" ->
            <<104, 101, 108, 112, 32, 119, 105, 116, 104, 32, 114, 101, 97, 99, 116>>
      [] s = "what is typescript" ->
            <<119, 104, 97, 116, 32, 105, 115, 32, 116, 121, 112, 101, 115, 99, 114, 105, 112, 116>>
      [] s = "anybqwqf" ->
            <<97, 110, 121, 98, 113, 119, 113, 102>>
      [] s = "hi" ->
            <<104, 105>>
      [] s = "friendly" ->
            <<102, 114, 105, 101, 110, 100, 108, 121>>
      [] s = "formal" ->
            <<102, 111, 114, 109, 97, 108>>
      [] s = "unknown_tone" ->
            <<117, 110, 107, 110, 111, 119, 110, 95, 116, 111, 110, 101>>
      [] s = "constructor" ->
            <<99, 111, 110, 115, 116, 114, 117, 99, 116, 111, 114>>
      [] s = "short" ->
            <<115, 104, 111, 114, 116>>
      [] s = "medium" ->
            <<109, 101, 100, 105, 117, 109>>
      [] s = "detailed" ->
            <<100, 101, 116, 97, 105, 108, 101, 100>>
      [] s = "unknown_length" ->
            <<117, 110, 107, 110, 111, 119, 110, 95, 108, 101, 110, 103, 116, 104>>
      [] s = "gpt-3.5-turbo" ->
            <<103, 112, 116, 45, 51, 46, 53, 45, 116, 117, 114, 98, 111>>
      [] s = "gpt-4" ->
            <<103, 112, 116, 45, 52>>
      [] s = "claude-3.5" ->
            <<99, 108, 97, 117, 100, 101, 45, 51, 46, 53>>
      [] s = "unknown_model" ->
            <<117, 110, 107, 110, 111, 119, 110, 95, 109, 111, 100, 101, 108>>
      [] s = "-" ->
            <<45>>
      [] s = "help" ->
            <<104, 101, 108, 112>>

\* an int32 is kept as the two 16-bit halves of its two's-complement
\* pattern; Half is 2^16
Half == 65536
\* hash = ((hash << 5) - hash) + char; hash = hash & hash
HashStep(hash, char) ==
    LET lo == hash.lo * 31 + char
        hi == hash.hi * 31 + lo \div Half
    IN [hi |-> hi % Half, lo |-> lo % Half]
\* for (let i = 0; i < str.length; i++); reading hash.hi in the test has
\* each iteration's value computed before the next iteration, as in the loop
RECURSIVE HashLoop(_, _, _)
HashLoop(str, i, hash) ==
    IF i > Len(str) \/ hash.hi \notin 0..(Half - 1) THEN hash
    ELSE HashLoop(str, i + 1, HashStep(hash, str[i]))
\* the sign bit of the int32
IsNegative(hash) == hash.hi >= Half \div 2

\* Math.abs of an int32 whose result is cut back to an int32: the most
\* negative value stays negative
MathAbsInt32(hash) ==
    IF IsNegative(hash)
    THEN [neg |-> hash.hi = Half \div 2 /\ hash.lo = 0,
          hi |-> Half - hash.hi - (IF hash.lo = 0 THEN 0 ELSE 1),
          lo |-> (Half - hash.lo) % Half]
    ELSE [neg |-> FALSE, hi |-> hash.hi, lo |-> hash.lo]

\* Math.abs(hash): a JS number, sign and magnitude; the magnitude of the
\* most negative int32 is 2^31 = [hi |-> 32768, lo |-> 0]
MathAbs(hash) ==
    IF IsNegative(hash)
    THEN [neg |-> FALSE,
          hi |-> Half - hash.hi - (IF hash.lo = 0 THEN 0 ELSE 1),
          lo |-> (Half - hash.lo) % Half]
    ELSE [neg |-> FALSE, hi |-> hash.hi, lo |-> hash.lo]

\* hashString
hashString(str) == MathAbs(HashLoop(str, 1, [hi |-> 0, lo |-> 0]))

\* n % k of JS for a number n kept as sign and halves: the sign of the
\* result is the sign of n
Rem(n, k) ==
    LET m == (n.hi * (Half % k) + n.lo) % k
    IN IF n.neg THEN 0 - m ELSE m

REPLY_STYLES ==
    <<"summary", "bullets", "steps", "short_quip", "definition_example", "qa">>
\* REPLY_STYLES[styleIndex]
StyleAt(styleIndex) ==
    IF styleIndex \in 0..(Len(REPLY_STYLES) - 1)
    THEN REPLY_STYLES[styleIndex + 1] ELSE "undefined"

\* `${userText}-${options.tone}-${options.responseLength}-${options.model}`
Seed(userText, o) ==
    CharCodes(userText) \o CharCodes("-") \o CharCodes(o.tone)
    \o CharCodes("-") \o CharCodes(o.responseLength)
    \o CharCodes("-") \o CharCodes(o.model)

\* ---- the numbers of the templates, in tenths (0.5 is 5); NaN apart
Tenths(v) == [nan |-> FALSE, v |-> v]
Whole(n) == Tenths(10 * n)
NaN == [nan |-> TRUE, v |-> 0]
Add(a, b) == IF a.nan \/ b.nan THEN NaN ELSE Tenths(a.v + b.v)
Mul(a, b) == IF a.nan \/ b.nan THEN NaN ELSE Tenths((a.v * b.v) \div 10)
MathFloor(a) == IF a.nan THEN NaN ELSE Tenths((a.v \div 10) * 10)
MathMin(a, b) ==
    IF a.nan \/ b.nan THEN NaN ELSE IF a.v <= b.v THEN a ELSE b
\* a > b and a >= b: false when either is NaN
Gt(a, b) == ~a.nan /\ ~b.nan /\ a.v > b.v
Ge(a, b) == ~a.nan /\ ~b.nan /\ a.v >= b.v

\* property names every object literal inherits from Object.prototype: a
\* lookup table[name] with such a name finds a truthy value that has none of
\* the fields of the table's entries
ObjectPrototypeKeys ==
    {"constructor", "toString", "valueOf", "hasOwnProperty", "__proto__"}

TONE_TEMPLATES ==
    [friendly |->
        [greeting |-> "Hey there!", connector |-> "So",
         enthusiasm |-> "awesome",
         closing |-> "Hope that helps! (U+1F60A)"],
     formal |->
        [greeting |-> "Thank you for your inquiry.",
         connector |-> "Regarding your question",
         enthusiasm |-> "excellent",
         closing |-> "Please let me know if you need further assistance."],
     creative |->
        [greeting |-> "What an interesting question!",
         connector |-> "Let me paint you a picture",
         enthusiasm |-> "brilliant",
         closing |-> "That's my creative take on it! (U+2728)"],
     professional |->
        [greeting |-> "Thank you for reaching out.",
         connector |-> "In response to your inquiry",
         enthusiasm |-> "outstanding",
         closing |-> "I'm here to assist with any follow-up questions."],
     casual |->
        [greeting |-> "Hey!", connector |-> "So about",
         enthusiasm |-> "cool",
         closing |-> "Let me know if you need anything else!"]]
\* `${x}` of a field the value does not have
UndefinedTemplate ==
    [greeting |-> "undefined", connector |-> "undefined",
     enthusiasm |-> "undefined", closing |-> "undefined"]

LENGTH_MULTIPLIERS ==
    [short |-> Tenths(5), medium |-> Tenths(10), long |-> Tenths(18),
     detailed |-> Tenths(25)]

MODEL_CHARACTERISTICS ==
    ("gpt-3.5-turbo" :> [complexity |-> "simple", examples |-> Whole(1)])
    @@ ("gpt-4" :> [complexity |-> "detailed", examples |-> Whole(2)])
    @@ ("claude-3" :> [complexity |-> "analytical", examples |-> Whole(1)])
    @@ ("claude-3.5" :> [complexity |-> "comprehensive", examples |-> Whole(3)])
    @@ ("claude-3.5-sonnet" :>
            [complexity |-> "comprehensive", examples |-> Whole(3)])
    @@ ("gemini-pro" :> [complexity |-> "creative", examples |-> Whole(2)])

\* TONE_TEMPLATES[options.tone] || TONE_TEMPLATES.friendly
ToneOf(name) ==
    IF name \in DOMAIN TONE_TEMPLATES THEN TONE_TEMPLATES[name]
    ELSE IF name \in ObjectPrototypeKeys THEN UndefinedTemplate
    ELSE TONE_TEMPLATES["friendly"]
\* LENGTH_MULTIPLIERS[options.responseLength] || 1.0; an inherited property
\* is a function or an object, NaN in the arithmetic of the templates
LengthMultiplierOf(name) ==
    IF name \in DOMAIN LENGTH_MULTIPLIERS THEN LENGTH_MULTIPLIERS[name]
    ELSE IF name \in ObjectPrototypeKeys THEN NaN
    ELSE Tenths(10)
\* MODEL_CHARACTERISTICS[options.model] || MODEL_CHARACTERISTICS['gpt-3.5-turbo']
ModelCharOf(name) ==
    IF name \in DOMAIN MODEL_CHARACTERISTICS THEN MODEL_CHARACTERISTICS[name]
    ELSE IF name \in ObjectPrototypeKeys
    THEN [complexity |-> "undefined", examples |-> NaN]
    ELSE MODEL_CHARACTERISTICS["gpt-3.5-turbo"]

\* ---- texts: a string kept as the pieces the template literal joins
Text(segs) == [t |-> "string", segs |-> segs]
UndefinedText == [t |-> "undefined", segs |-> <<>>]

NumStr(n) == CASE n = 0 -> "0" [] n = 1 -> "1" [] n = 2 -> "2"
               [] n = 3 -> "3" [] n = 4 -> "4" [] OTHER -> "many"
\* attachments.map(a => a.name).join(', ')
RECURSIVE JoinFrom(_, _)
JoinFrom(attachments, i) ==
    IF i > Len(attachments) THEN ""
    ELSE IF i = Len(attachments) THEN attachments[i].name
    ELSE attachments[i].name \o ", " \o JoinFrom(attachments, i + 1)
JoinNames(attachments) == JoinFrom(attachments, 1)
AttachmentMention(attachments) ==
    IF Len(attachments) > 0
    THEN "I can see you've attached " \o NumStr(Len(attachments)) \o " file"
         \o (IF Len(attachments) > 1 THEN "s" ELSE "") \o " ("
         \o JoinNames(attachments) \o "). "
    ELSE ""

\* toLowerCase of a char code, for the letters A-Z
LowerCode(c) == IF c \in 65..90 THEN c + 32 ELSE c
\* userText.toLowerCase().includes('help')
IncludesHelp(userText) ==
    LET str == CharCodes(userText)
        help == CharCodes("help")
    IN \E i \in 1..Len(str) :
          /\ i + Len(help) - 1 <= Len(str)
          /\ \A j \in 1..Len(help) : LowerCode(str[i + j - 1]) = help[j]

\* the quantities the generators derive from the length multiplier and the
\* model: the same with Math.min left out, so that nothing is clamped
DerivedQuantitiesUnclamped(userText, lengthMultiplier, modelChar) ==
    LET hash == hashString(CharCodes(userText))
        maxQuips ==
            MathFloor(Add(Add(Whole(2), modelChar.examples), lengthMultiplier))
    IN [maxBullets |->
            MathFloor(Add(Whole(3), Mul(lengthMultiplier, Whole(2)))),
        maxSteps |-> MathFloor(Add(Whole(3), lengthMultiplier)),
        maxQuips |-> maxQuips,
        quipIndex |-> IF maxQuips.nan THEN NaN
                      ELSE Whole(Rem(hash, maxQuips.v \div 10)),
        exampleCount |-> MathFloor(Mul(modelChar.examples, lengthMultiplier)),
        qaCount |->
            MathFloor(Add(Add(Whole(2), modelChar.examples), lengthMultiplier))]

\* the quantities the generators derive from the length multiplier and the
\* model: maxBullets (bullets), maxSteps (steps), maxQuips and
\* quipIndex = hash % maxQuips (short quip; hash % NaN is NaN),
\* exampleCount (definition and example), qaCount (Q&A)
DerivedQuantities(userText, lengthMultiplier, modelChar) ==
    LET hash == hashString(CharCodes(userText))
        bulletCount ==
            MathFloor(Add(Whole(3), Mul(lengthMultiplier, Whole(2))))
        stepCount == MathFloor(Add(Whole(3), lengthMultiplier))
        maxQuips ==
            MathMin(Whole(4),
                    MathFloor(Add(Add(Whole(2), modelChar.examples),
                                  lengthMultiplier)))
    IN [maxBullets |-> MathMin(bulletCount, Add(Whole(3), modelChar.examples)),
        maxSteps |-> MathMin(stepCount, Add(Whole(3), modelChar.examples)),
        maxQuips |-> maxQuips,
        quipIndex |-> IF maxQuips.nan THEN NaN
                      ELSE Whole(Rem(hash, maxQuips.v \div 10)),
        exampleCount |->
            MathMin(modelChar.examples,
                    MathFloor(Mul(modelChar.examples, lengthMultiplier))),
        qaCount |->
            MathMin(Whole(4),
                    MathFloor(Add(Add(Whole(2), modelChar.examples),
                                  lengthMultiplier)))]

generateSummaryReply(userText, tone, lengthMultiplier, modelChar, attachmentMention) ==
    LET baseLength == MathFloor(Mul(Whole(50), lengthMultiplier))
        complexity == IF modelChar.complexity = "detailed"
                      THEN "comprehensive" ELSE "concise"
    IN Text(<<tone.greeting, " ", attachmentMention, tone.connector, " \"",
              userText, "\", here's a ", complexity, " summary:\n\n",
              IF IncludesHelp(userText)
              THEN "I'd be happy to help you with that! Based on your question, here are the key points you should know."
              ELSE "Let me break this down for you in a clear, organized way.",
              "\n\nThe main concept involves understanding the core principles and applying them effectively. ",
              IF Gt(baseLength, Whole(100))
              THEN "There are several important aspects to consider, each building upon the previous one."
              ELSE "",
              "\n\n", tone.closing>>)

generateBulletReply(userText, tone, lengthMultiplier, modelChar, attachmentMention) ==
    LET maxBullets ==
            DerivedQuantities(userText, lengthMultiplier, modelChar).maxBullets
    IN Text(<<tone.greeting, " ", attachmentMention,
              "Here are the key points about \"", userText, "\":\n\n",
              "* **Primary consideration**: This is the most important aspect to understand\n* **Secondary factors**: These elements support the main concept\n* **Implementation details**: How to actually apply this knowledge\n",
              IF Gt(maxBullets, Whole(3))
              THEN "* **Advanced concepts**: Deeper insights for better understanding\n* **Common pitfalls**: Things to avoid when working with this\n* **Best practices**: Recommended approaches for success"
              ELSE "",
              "\n\n", tone.closing>>)

generateStepsReply(userText, tone, lengthMultiplier, modelChar, attachmentMention) ==
    LET maxSteps ==
            DerivedQuantities(userText, lengthMultiplier, modelChar).maxSteps
    IN Text(<<tone.greeting, " ", attachmentMention,
              "Let me walk you through \"", userText, "\" step by step:\n\n",
              "**Step 1: Initial Setup**\nStart by understanding the basic requirements and context for ",
              userText,
              ".\n\n**Step 2: Core Implementation** \nApply the main concepts and build the foundation for your ",
              userText,
              " approach.\n\n**Step 3: Refinement**\nPolish and optimize your ",
              userText, " implementation.\n">>
            \o (IF Gt(maxSteps, Whole(3))
                THEN <<"\n**Step 4: Advanced Features**\nAdd sophisticated elements for better ",
                       userText,
                       " results.\n\n**Step 5: Testing & Validation**\nEnsure your ",
                       userText, " solution works as expected.">>
                ELSE <<"">>)
            \o <<"\n\n", tone.closing>>)

generateShortQuipReply(userText, tone, lengthMultiplier, modelChar, attachmentMention) ==
    LET quips ==
            <<Text(<<"That's a ", tone.enthusiasm, " question! ",
                     attachmentMention,
                     "The short answer: it depends on your specific needs.">>),
              Text(<<"Great question! ", attachmentMention,
                     "In a nutshell: focus on the fundamentals first.">>),
              Text(<<"Interesting! ", attachmentMention,
                     "My take: start simple, then iterate.">>),
              Text(<<"Love this! ", attachmentMention,
                     "Quick answer: yes, but with some caveats.">>)>>
        quipIndex ==
            DerivedQuantities(userText, lengthMultiplier, modelChar).quipIndex
    IN \* quips[quipIndex]: undefined when the index is NaN or past the end
       IF quipIndex.nan \/ quipIndex.v \div 10 >= Len(quips)
       THEN UndefinedText
       ELSE quips[quipIndex.v \div 10 + 1]

generateDefinitionExampleReply(userText, tone, lengthMultiplier, modelChar, attachmentMention) ==
    LET exampleCount ==
            DerivedQuantities(userText, lengthMultiplier, modelChar).exampleCount
    IN Text(<<tone.greeting, " ", attachmentMention,
              "Let me define this clearly:\n\n**Definition**: ", userText,
              " refers to a systematic approach that combines multiple elements to achieve a desired outcome.\n\n**Key Characteristics**:\n- Structured methodology\n- Clear objectives\n- Measurable results\n\n**Examples**:\n",
              IF Ge(exampleCount, Whole(1))
              THEN "1. **Basic Example**: A simple implementation that demonstrates core concepts\n"
              ELSE "",
              IF Ge(exampleCount, Whole(2))
              THEN "2. **Intermediate Example**: A more complex scenario showing advanced features\n"
              ELSE "",
              IF Ge(exampleCount, Whole(3))
              THEN "3. **Advanced Example**: A sophisticated use case with multiple components\n"
              ELSE "",
              "\n\n", tone.closing>>)

generateQAReply(userText, tone, lengthMultiplier, modelChar, attachmentMention) ==
    LET qaCount ==
            DerivedQuantities(userText, lengthMultiplier, modelChar).qaCount
        \* qaPairs.slice(0, qaCount): slice(0, NaN) is empty
        n == IF qaCount.nan THEN 0 ELSE qaCount.v \div 10
        qaPairs ==
            <<<<"**Q: What exactly are you asking about?**\nA: Based on \"",
                userText,
                "\", you're looking for guidance on a specific topic or problem.">>,
              <<"**Q: What's the best approach?**\nA: The optimal solution depends on your specific requirements and constraints.">>,
              <<"**Q: How do you get started?**\nA: Begin with the fundamentals, then gradually build complexity as needed.">>,
              <<"**Q: What should you avoid?**\nA: Common mistakes include overcomplicating things initially and not testing thoroughly.">>>>
        qaText == (IF n >= 1 THEN qaPairs[1] ELSE <<>>)
                  \o (IF n >= 2 THEN <<"\n\n">> \o qaPairs[2] ELSE <<>>)
                  \o (IF n >= 3 THEN <<"\n\n">> \o qaPairs[3] ELSE <<>>)
                  \o (IF n >= 4 THEN <<"\n\n">> \o qaPairs[4] ELSE <<>>)
    IN Text(<<tone.greeting, " ", attachmentMention,
              "Let me address your question systematically:\n\n">>
            \o qaText \o <<"\n\n", tone.closing>>)

\* the switch on the style; replyText stays '' when no case matches
ReplyTextOf(style, userText, tone, lengthMultiplier, modelChar, attachmentMention) ==
    CASE style = "summary" ->
            generateSummaryReply(userText, tone, lengthMultiplier, modelChar, attachmentMention)
      [] style = "bullets" ->
            generateBulletReply(userText, tone, lengthMultiplier, modelChar, attachmentMention)
      [] style = "steps" ->
            generateStepsReply(userText, tone, lengthMultiplier, modelChar, attachmentMention)
      [] style = "short_quip" ->
            generateShortQuipReply(userText, tone, lengthMultiplier, modelChar, attachmentMention)
      [] style = "definition_example" ->
            generateDefinitionExampleReply(userText, tone, lengthMultiplier, modelChar, attachmentMention)
      [] style = "qa" ->
            generateQAReply(userText, tone, lengthMultiplier, modelChar, attachmentMention)
      [] OTHER -> Text(<<>>)

\* the environment of one call: the clock and the random source, from which
\* generateMessageId() and new Date() take their results
MaxEnv == 2
Envs == {[now |-> i, rnd |-> i] : i \in 1..MaxEnv}

\* the locals of generateAgentReply and the Message it returns
BuildReply(userText, o, attachments, env, hash, outAttachments) ==
    LET styleIndex == Rem(hash, Len(REPLY_STYLES))
        style == StyleAt(styleIndex)
        tone == ToneOf(o.tone)
        lengthMultiplier == LengthMultiplierOf(o.responseLength)
        modelChar == ModelCharOf(o.model)
        attachmentMention == AttachmentMention(attachments)
        replyText == ReplyTextOf(style, userText, tone, lengthMultiplier,
                                 modelChar, attachmentMention)
    IN [hash |-> hash, styleIndex |-> styleIndex, style |-> style,
        message |-> [id |-> [now |-> env.now, rnd |-> env.rnd],
                     text |-> replyText, sender |-> "agent",
                     timestamp |-> env.now, attachments |-> outAttachments,
                     status |-> "delivered"]]

\* generateAgentReply picking the style with the random source
generateAgentReplyRandomStyle(userText, o, attachments, env) ==
    BuildReply(userText, o, attachments, env,
               [neg |-> FALSE, hi |-> 0, lo |-> env.rnd], <<>>)
\* generateAgentReply returning the attachments it was given
generateAgentReplyEchoes(userText, o, attachments, env) ==
    BuildReply(userText, o, attachments, env,
               hashString(Seed(userText, o)), attachments)

generateAgentReply(userText, o, attachments, env) ==
    BuildReply(userText, o, attachments, env,
               hashString(Seed(userText, o)), <<>>)

\* ---- inputs of the reply engine
\* the seed of "anybqwqf" with friendly, medium, gpt-4 hashes to -2^31
ReplyTexts == {"help with react", "anybqwqf", "hi"}
ReplyTones == {"friendly", "formal", "unknown_tone", "constructor"}
ReplyLengths == {"medium", "detailed", "unknown_length", "constructor"}
ReplyModels == {"gpt-4", "claude-3.5", "unknown_model", "constructor"}
ReplyOptions ==
    {ChatOptions(a, b, c) : a \in ReplyTones, b \in ReplyLengths, c \in ReplyModels}
AttachmentLists ==
    { <<>>, <<[name |-> "a.png"]>>,
      <<[name |-> "a.png"], [name |-> "b.pdf"]>>,
      <<[name |-> "b.pdf"], [name |-> "a.png"]>> }

ReplyCall(userText, o, attachments, env) ==
    [kind |-> "reply", userText |-> userText, options |-> o,
     attachments |-> attachments, env |-> env,
     out |-> generateAgentReply(userText, o, attachments, env)]

\* a first call of generateAgentReply
GenerateAgentReply(userText, o, attachments, env) ==
    /\ replyCall = NoCall
    /\ replyCall' = ReplyCall(userText, o, attachments, env)
    /\ UNCHANGED <<replyPrev, migrateCall, pageVars>>
    /\ UNCHANGED <<storeVars, homeVars>>

\* a separate call with the same arguments, at another time
GenerateAgentReplyAgain(env) ==
    /\ replyCall # NoCall
    /\ replyPrev' = replyCall
    /\ replyCall' = ReplyCall(replyCall.userText, replyCall.options,
                              replyCall.attachments, env)
    /\ UNCHANGED <<migrateCall, pageVars>>
    /\ UNCHANGED <<storeVars, homeVars>>

NextReply ==
    \/ \E userText \in ReplyTexts, o \in ReplyOptions,
          attachments \in AttachmentLists, env \in Envs :
          GenerateAgentReply(userText, o, attachments, env)
    \/ \E env \in Envs : GenerateAgentReplyAgain(env)

\* the generators called with a user text and the table entries of a
\* response length and a model
DeriveQuantities(userText, responseLength, model) ==
    /\ replyCall' =
          [kind |-> "derive", userText |-> userText,
           responseLength |-> responseLength, model |-> model,
           q |-> DerivedQuantities(userText,
                                   LENGTH_MULTIPLIERS[responseLength],
                                   MODEL_CHARACTERISTICS[model])]
    /\ UNCHANGED <<replyPrev, migrateCall, pageVars>>
    /\ UNCHANGED <<storeVars, homeVars>>

\* ------------------------- schema helpers (hooks/useLocalStorage.ts)
\* JS values handed to the helpers: null, numbers, strings, arrays, and
\* objects as functions from field names to values
Null == [t |-> "null"]
ObjectOf(fields) == [t |-> "Object", fields |-> fields]
VersionField == "_schemaVersion"
\* typeof data === 'object' of a value that is not null
IsObject(v) == v.t \in {"Object", "array"}
\* !data
Falsy(v) == v = Null \/ v = Num(0) \/ v = Str("")
\* '_schemaVersion' in data
HasVersion(v) == v.t = "Object" /\ VersionField \in DOMAIN v.fields
\* { ...data, _schemaVersion: version }
Stamped(v, version) ==
    ObjectOf((VersionField :> Str(version))
             @@ (IF v.t = "Object" THEN v.fields ELSE <<>>))
\* an object whose own toString is not a function, as JSON.parse gives for
\* '{"toString":1}': converting it to a string finds no callable toString,
\* gets the object back from Object.prototype.valueOf and throws a TypeError
NoToString == ObjectOf("toString" :> Num(1))
ToStringThrows(v) ==
    /\ v.t = "Object"
    /\ "toString" \in DOMAIN v.fields
    /\ v.fields["toString"].t # "function"
\* `${value}` of a version field that converts
VersionText(v) ==
    CASE v.t = "string" -> v.s
      [] v.t = "number" -> NumStr(v.n)
      [] OTHER -> "[object Object]"

\* what a call leaves behind: the value returned, whether it is the very
\* object passed in, the argument as it is after the call, and the console
Returned(result, same, input, warns, logs) ==
    [result |-> result, same |-> same, input |-> input, warns |-> warns,
     logs |-> logs]

\* migrateStorageData stamping also the data that has no version
migrateStorageDataAlwaysStamps(data, expectedVersion) ==
    IF Falsy(data) \/ ~IsObject(data) THEN Returned(data, TRUE, data, <<>>, <<>>)
    ELSE IF HasVersion(data) /\ data.fields[VersionField] = Str(expectedVersion)
    THEN Returned(data, TRUE, data, <<>>, <<>>)
    ELSE Returned(Stamped(data, expectedVersion), FALSE, data, <<>>, <<>>)
\* migrateStorageData writing the new version into the object passed in
migrateStorageDataInPlace(data, expectedVersion) ==
    IF Falsy(data) \/ ~IsObject(data) \/ ~HasVersion(data)
    THEN Returned(data, TRUE, data, <<>>, <<>>)
    ELSE IF data.fields[VersionField] = Str(expectedVersion)
    THEN Returned(data, TRUE, data, <<>>, <<>>)
    ELSE IF data.fields[VersionField] = Str("0.9.0")
    THEN Returned(Stamped(data, expectedVersion), TRUE,
                  Stamped(data, expectedVersion), <<>>,
                  <<"Migrating data from schema version 0.9.0 to 1.0.0">>)
    ELSE IF ToStringThrows(data.fields[VersionField])
    THEN Returned(Null, FALSE, data, <<"Error migrating storage data:">>, <<>>)
    ELSE Returned(Null, FALSE, data,
                  <<"Unknown schema version: "
                    \o VersionText(data.fields[VersionField])>>, <<>>)

\* migrateStorageData stamping the migrated data with STORAGE_SCHEMA_VERSION
\* whatever version the caller expects
migrateStorageDataStampsCurrent(data, expectedVersion) ==
    IF Falsy(data) \/ ~IsObject(data) \/ ~HasVersion(data)
    THEN Returned(data, TRUE, data, <<>>, <<>>)
    ELSE IF data.fields[VersionField] = Str(expectedVersion)
    THEN Returned(data, TRUE, data, <<>>, <<>>)
    ELSE IF data.fields[VersionField] = Str("0.9.0")
    THEN Returned(Stamped(data, STORAGE_SCHEMA_VERSION), FALSE, data, <<>>,
                  <<"Migrating data from schema version 0.9.0 to 1.0.0">>)
    ELSE IF ToStringThrows(data.fields[VersionField])
    THEN Returned(Null, FALSE, data, <<"Error migrating storage data:">>, <<>>)
    ELSE Returned(Null, FALSE, data,
                  <<"Unknown schema version: "
                    \o VersionText(data.fields[VersionField])>>, <<>>)

\* migrateStorageData; the template literal of the default case is the one
\* place of the try block that throws on the values above, and the catch
\* warns 'Error migrating storage data:' with the error and returns null
migrateStorageData(data, expectedVersion) ==
    IF Falsy(data) \/ ~IsObject(data) \/ ~HasVersion(data)
    THEN Returned(data, TRUE, data, <<>>, <<>>)
    ELSE IF data.fields[VersionField] = Str(expectedVersion)
    THEN Returned(data, TRUE, data, <<>>, <<>>)
    ELSE IF data.fields[VersionField] = Str("0.9.0")
    THEN Returned(Stamped(data, expectedVersion), FALSE, data, <<>>,
                  <<"Migrating data from schema version 0.9.0 to 1.0.0">>)
    ELSE IF ToStringThrows(data.fields[VersionField])
    THEN Returned(Null, FALSE, data, <<"Error migrating storage data:">>, <<>>)
    ELSE Returned(Null, FALSE, data,
                  <<"Unknown schema version: "
                    \o VersionText(data.fields[VersionField])>>, <<>>)

\* createStorageData with the spread written last: a version the payload
\* carries wins
createStorageDataPayloadWins(data) ==
    Returned(ObjectOf((IF data.t = "Object" THEN data.fields ELSE <<>>)
                      @@ (VersionField :> Str(STORAGE_SCHEMA_VERSION))),
             FALSE, data, <<>>, <<>>)

\* createStorageData
createStorageData(data) ==
    Returned(Stamped(data, STORAGE_SCHEMA_VERSION), FALSE, data, <<>>, <<>>)

\* ---- inputs of the helpers
VersionValues ==
    {Str("1.0.0"), Str("0.9.0"), Str("99.0.0"), Num(1), NoToString}
PlainObjects ==
    {ObjectOf(("name" :> Str(n)) @@ ("value" :> Num(v))) :
        n \in {"test", PlainText}, v \in 0..MaxNum}
VersionedObjects ==
    {ObjectOf((VersionField :> ver) @@ p.fields) :
        ver \in VersionValues, p \in PlainObjects}
HelperData ==
    PlainObjects \cup VersionedObjects
    \cup {Null, Num(0), Num(1), Str(PlainText), Arr(<<>>)}
ExpectedVersions == {STORAGE_SCHEMA_VERSION, "0.9.0", "2.0.0"}

MigrateStorageData(data, expectedVersion) ==
    /\ migrateCall' = [kind |-> "migrate", data |-> data,
                       expectedVersion |-> expectedVersion,
                       out |-> migrateStorageData(data, expectedVersion)]
    /\ UNCHANGED <<replyCall, replyPrev, pageVars>>
    /\ UNCHANGED <<storeVars, homeVars>>

CreateStorageData(data) ==
    /\ migrateCall' = [kind |-> "create", data |-> data,
                       expectedVersion |-> STORAGE_SCHEMA_VERSION,
                       out |-> createStorageData(data)]
    /\ UNCHANGED <<replyCall, replyPrev, pageVars>>
    /\ UNCHANGED <<storeVars, homeVars>>

\* a caller passes the result of its last migrateStorageData call to
\* migrateStorageData again, expecting the same version
MigrateStorageDataAgain ==
    /\ migrateCall.kind = "migrate"
    /\ migrateCall' = [kind |-> "again", original |-> migrateCall.data,
                       data |-> migrateCall.out.result,
                       expectedVersion |-> migrateCall.expectedVersion,
                       first |-> migrateCall.out,
                       out |-> migrateStorageData(migrateCall.out.result,
                                                  migrateCall.expectedVersion)]
    /\ UNCHANGED <<replyCall, replyPrev, pageVars>>
    /\ UNCHANGED <<storeVars, homeVars>>


\* ------------------------------------------------------ specifications
vars == <<storeVars, homeVars, utilVars>>
SpecHook == Init /\ [][NextHook]_vars
SpecTabs == Init /\ [][NextTabs]_vars
SpecHome == Init /\ [][NextHome]_vars
\* the page across a deployment: sessions of an older bundle, then of the
\* bundle of the source
SpecUpgrade ==
    Init /\ [][\/ \E i \in 1..(Len(Builds) - 1) : HomeLoadBuild(Builds[i])
               \/ HomeLoad
               \/ \E text \in Texts : HandleSendMessage(text)
               \/ \E tm \in timers : ReplyTimer(tm)
               \/ \E o \in OptionChoices : SetOptions(o)]_vars
SpecReply == Init /\ [][NextReply]_vars
\* the page of one tab and the writes of the other contexts of its origin
SpecNotify ==
    Init /\ [][\/ ~loaded /\ HomeLoad
               \/ \E text \in {PlainText} : HandleSendMessage(text)
               \/ \E o \in OptionChoices : SetOptions(o)
               \/ \E w \in {<<K, Stringify(Arr(defaultMessages))>>,
                             <<K, NoItem>>,
                             <<K, CorruptText>>,
                             <<AttachmentsKey, Stringify(Arr(<<>>))>>,
                             <<VersionKey, JStr(STORAGE_VERSION)>>,
                             <<VersionKey, JStr(Builds[1])>>}
                           \cup {<<OtherKey, Stringify(o)>> :
                                    o \in OptionChoices} :
                     OtherContextWrite(w[1], w[2])
               \/ HomeStorageEvent]_vars
SpecMigrate ==
    Init /\ [][
        \/ \E data \in HelperData, expectedVersion \in ExpectedVersions :
              MigrateStorageData(data, expectedVersion)
        \/ MigrateStorageDataAgain
        \/ \E data \in PlainObjects \cup VersionedObjects \cup {Null} :
              CreateStorageData(data)]_vars
SpecAttach ==
    Init /\ [][
        \/ HomeLoad
        \/ \E files \in FileLists : HandleFileSelect(files)
        \/ \E id \in 1..MaxPicked : HandleRemove(id)
        \/ \E trimmedMessage \in {""} : ComposerHandleSend(trimmedMessage)]_vars
SpecSound ==
    Init /\ [][\E env \in AudioEnvs : PlayNotificationSound(env)]_vars
SpecDerive ==
    Init /\ [][\E userText \in ReplyTexts \cup {"what is typescript", "help"},
                  responseLength \in DOMAIN LENGTH_MULTIPLIERS,
                  model \in DOMAIN MODEL_CHARACTERISTICS :
                  DeriveQuantities(userText, responseLength, model)]_vars

\* ------------------------------------------------- claims on the store
KnownVersions == {STORAGE_SCHEMA_VERSION, "0.9.0"}
NoWriteFails(ops) == \A i \in 1..Len(ops) : IsWrite(ops[i]) => ~ops[i].fails

\* C1: a value saved with setValue and loaded again by re-initialising the
\* hook on the key is the value that was saved, Date fields being Dates.
C1_RoundTrip ==
    (lastOp.kind = "mount" /\ lastOp.hasWindow /\ lastSaved.some)
        => storedValue[lastOp.tab] = lastSaved.v

\* C2: after a handler that passes only functional updates f1..fn to the
\* setter, the in-memory value is fn(...f1(v0)...), v0 the value before.
C2_FunctionalUpdates ==
    (lastOp.kind = "handler"
     /\ \A i \in 1..Len(lastOp.ops) : lastOp.ops[i].op = "fn")
        => /\ phase[lastOp.tab] = "browser"
           /\ storedValue[lastOp.tab] =
                 Num(lastOp.before.n + Len(lastOp.ops))

\* C3: when the write of a setValue call fails, nothing is thrown and the
\* in-memory value is the new value all the same.
C3_WriteFailureKeepsMemory ==
    (lastOp.kind = "handler" /\ Len(lastOp.ops) = 1
     /\ IsWrite(lastOp.ops[1]) /\ lastOp.ops[1].fails)
        => /\ phase[lastOp.tab] = "browser"
           /\ storedValue[lastOp.tab] =
                 ValueToStore(lastOp.ops[1], lastOp.before)

\* C4: the first read of a key with no entry, with an unparsable entry or
\* without a storage backend gives the caller's default, and no error.
C4_LoadFallsBack ==
    (lastOp.kind = "mount"
     /\ (lastOp.item = NoItem \/ ParseThrows(lastOp.item)
         \/ ~lastOp.hasWindow))
        => /\ storedValue[lastOp.tab] = InitialValue
           /\ phase[lastOp.tab] \in {"browser", "server"}
C4_Witness ==
    /\ lastOp.kind = "mount" /\ lastOp.hasWindow
    /\ lastOp.item = CorruptText
    /\ storedValue[lastOp.tab] = InitialValue
C4_WitnessNoBackend ==
    /\ lastOp.kind = "mount" /\ ~lastOp.hasWindow
    /\ lastOp.item # NoItem /\ ~ParseThrows(lastOp.item)
    /\ ParseValue(lastOp.item) # InitialValue

\* C5: after a handler whose last call is clearValue (and in which every
\* write succeeds), the in-memory value is the default and the key has no
\* persisted entry.
C5_ClearResets ==
    (lastOp.kind = "handler" /\ NoWriteFails(lastOp.ops)
     /\ lastOp.ops[Len(lastOp.ops)].op = "clear")
        => /\ storedValue[lastOp.tab] = InitialValue
           /\ store[K] = NoItem

\* C6: a storage event overwrites the in-memory value with the re-parsed
\* new value when its key is the hook's key and its new value is non-null
\* (and parses, C7 being the other case); an event for another key or with
\* a null new value leaves the in-memory value as it was.
C6_StorageEventOverwrites ==
    lastOp.kind = "storage" =>
        LET e == lastOp.e IN
        /\ (e.key = K /\ e.newValue # NoItem /\ ~ParseThrows(e.newValue))
              => storedValue[lastOp.tab] = ParseValue(e.newValue)
        /\ (e.key # K \/ e.newValue = NoItem)
              => storedValue[lastOp.tab] = lastOp.before
C6_Witness ==
    /\ lastOp.kind = "storage"
    /\ lastOp.e.key = K /\ lastOp.e.newValue # NoItem
    /\ ~ParseThrows(lastOp.e.newValue)
    /\ storedValue[lastOp.tab] # lastOp.before
C6_WitnessOtherKey ==
    /\ lastOp.kind = "storage"
    /\ lastOp.e.key = OtherKey /\ lastOp.e.newValue # NoItem
    /\ lastOp.before # InitialValue
C6_WitnessNull ==
    /\ lastOp.kind = "storage"
    /\ lastOp.e.key = K /\ lastOp.e.newValue = NoItem
    /\ lastOp.before # InitialValue

\* C7: a storage event for the hook's key whose new value cannot be parsed
\* is caught: the in-memory value stays what it was, nothing is thrown.
C7_BadEventKeepsMemory ==
    (lastOp.kind = "storage" /\ lastOp.e.key = K
     /\ lastOp.e.newValue # NoItem /\ ParseThrows(lastOp.e.newValue))
        => /\ storedValue[lastOp.tab] = lastOp.before
           /\ phase[lastOp.tab] = "browser"
C7_Witness ==
    /\ lastOp.kind = "storage" /\ lastOp.e.key = K
    /\ lastOp.e.newValue = CorruptText
    /\ lastOp.before # InitialValue
    /\ storedValue[lastOp.tab] = lastOp.before

\* C8: when both contexts have written the key with setValue, the entry is
\* the one the last setValue wrote and every storage event has been
\* handled, each context's in-memory value is the persisted one (compared
\* as serialised text, so that a Date and its ISO string count as equal).
C8_LastWriterWins ==
    (writers = Tabs /\ lastSaved.some
     /\ \A t \in Tabs : phase[t] = "browser" /\ inbox[t] = <<>>)
        => \A t \in Tabs : Stringify(storedValue[t]) = store[K]

\* C9: every text the hook persists is an envelope whose _schemaVersion is
\* a known version, and a stored envelope with an unknown _schemaVersion is
\* not accepted as data when the key is loaded.
C9_EnvelopeVersioned ==
    /\ lastSaved.some =>
          (store[K].j = "object" /\ store[K].ver \in KnownVersions)
    /\ (lastOp.kind = "mount" /\ lastOp.hasWindow
        /\ lastOp.item.j = "object"
        /\ lastOp.item.ver \notin KnownVersions \cup {"absent"})
          => storedValue[lastOp.tab] = InitialValue
\* the second half of C9 alone
C9_UnknownVersionRejected ==
    (lastOp.kind = "mount" /\ lastOp.hasWindow
     /\ lastOp.item.j = "object"
     /\ lastOp.item.ver \notin KnownVersions \cup {"absent"})
        => storedValue[lastOp.tab] = InitialValue

\* ---------------------------------------------- claims on the chat page
\* the message of the conversation msgs that has the given id, if any
WithId(msgs, id) == {msgs[i] : i \in {j \in DOMAIN msgs : msgs[j].id = id}}

\* C10: a message that stays in the conversation stays as it is, but for
\* the status of a user message; in particular its options stay the ones
\* captured when it was sent.
C10_MessagesImmutable ==
    [][\A i \in DOMAIN messages :
          \A m \in WithId(messages', messages[i].id) :
              IF messages[i].sender = "user"
              THEN [m EXCEPT !.status = messages[i].status] = messages[i]
              ELSE m = messages[i]]_vars

\* the part of C10 on the options: they never change on a message, and a
\* reply carries the options of the user message that triggered it
C10_OptionsCaptured ==
    [][/\ \A i \in DOMAIN messages :
             \A m \in WithId(messages', messages[i].id) :
                 m.options = messages[i].options
       /\ \A tm \in timers :
             \A m \in WithId(messages, tm.uid) : m.options = tm.options
       /\ homeOp'.kind = "reply" =>
             \A m \in WithId(messages, homeOp'.uid) :
                 messages'[Len(messages')].options = m.options]_vars
\* a reply has completed after the active options were changed
C10_WitnessLateReply ==
    /\ homeOp.kind = "reply"
    /\ messages[Len(messages)].options # options
    /\ \E m \in WithId(messages, homeOp.uid) :
          m.options = messages[Len(messages)].options

\* ------------------------------------------ claims on the reply engine
\* C11: two separate calls of generateAgentReply with the same userText,
\* options and attachment list return the same reply text, whatever the
\* clock and the random source give to each call.
C11_Deterministic ==
    (replyPrev.kind = "reply"
     /\ replyPrev.userText = replyCall.userText
     /\ replyPrev.options = replyCall.options
     /\ replyPrev.attachments = replyCall.attachments)
        => replyCall.out.message.text = replyPrev.out.message.text
C11_Witness ==
    /\ replyPrev.kind = "reply"
    /\ replyPrev.env # replyCall.env
    /\ replyPrev.out.message.id # replyCall.out.message.id
    /\ replyPrev.out.message.timestamp # replyCall.out.message.timestamp
    /\ replyCall.out.message.text.t = "string"
    /\ replyCall.attachments # <<>>

\* C12: the hash H of the seed is the absolute value of the 32-bit rolling
\* hash and is not negative; the style index is H mod 6, lies in 0..5 and
\* the text is the one the template of the style at that index produces.
C12_StyleFromHash ==
    replyCall.kind = "reply" =>
        LET out == replyCall.out
            o == replyCall.options
            bits == HashLoop(Seed(replyCall.userText, o), 1,
                             [hi |-> 0, lo |-> 0])
        IN /\ ~out.hash.neg
           /\ IF IsNegative(bits)
              THEN /\ (out.hash.lo + bits.lo) % Half = 0
                   /\ (out.hash.hi + bits.hi
                       + (IF bits.lo = 0 THEN 0 ELSE 1)) % Half = 0
              ELSE out.hash.hi = bits.hi /\ out.hash.lo = bits.lo
           /\ out.styleIndex \in 0..5
           /\ out.styleIndex = (out.hash.hi * 4 + out.hash.lo) % 6
           /\ out.style = REPLY_STYLES[out.styleIndex + 1]
           /\ out.message.text =
                 ReplyTextOf(out.style, replyCall.userText, ToneOf(o.tone),
                             LengthMultiplierOf(o.responseLength),
                             ModelCharOf(o.model),
                             AttachmentMention(replyCall.attachments))
\* the rolling hash of the seed is the most negative int32
C12_Witness ==
    /\ replyCall.kind = "reply"
    /\ replyCall.out.hash = [neg |-> FALSE, hi |-> Half \div 2, lo |-> 0]
    /\ replyCall.out.style = "steps"
C12_WitnessNegative ==
    /\ replyCall.kind = "reply"
    /\ IsNegative(HashLoop(Seed(replyCall.userText, replyCall.options), 1,
                           [hi |-> 0, lo |-> 0]))
    /\ replyCall.out.style = "qa"

\* C13: the Message returned has sender 'agent', status 'delivered' and an
\* empty attachments list, also when attachments were passed in.
C13_AgentDeliveredNoAttachments ==
    replyCall.kind = "reply" =>
        /\ replyCall.out.message.sender = "agent"
        /\ replyCall.out.message.status = "delivered"
        /\ replyCall.out.message.attachments = <<>>
C13_Witness ==
    /\ replyCall.kind = "reply"
    /\ Len(replyCall.attachments) = 2
    /\ replyCall.out.message.attachments = <<>>

\* the mention strings of the non-empty attachment lists
Mentions == {AttachmentMention(l) : l \in AttachmentLists \ {<<>>}}
\* C14: with a non-empty attachment list the reply text begins with the
\* mention string (the count, and the names joined by ', ' in input order),
\* in each of the six styles; with an empty list no piece of the text is a
\* mention.
C14_MentionPrepended ==
    replyCall.kind = "reply" =>
        LET text == replyCall.out.message.text IN
        /\ Len(replyCall.attachments) > 0 =>
              /\ text.t = "string"
              /\ Len(text.segs) > 0
              /\ text.segs[1] = AttachmentMention(replyCall.attachments)
        /\ Len(replyCall.attachments) = 0 =>
              \A i \in 1..Len(text.segs) : text.segs[i] \notin Mentions
\* the weaker statement: the mention is one of the pieces of the text
C14_MentionContained ==
    (replyCall.kind = "reply" /\ Len(replyCall.attachments) > 0) =>
        LET text == replyCall.out.message.text IN
        \E i \in 1..Len(text.segs) :
            text.segs[i] = AttachmentMention(replyCall.attachments)

\* what the claims take the lookups to be: the entry of a known name, the
\* default for every other name
ToneOrDefault(name) ==
    IF name \in DOMAIN TONE_TEMPLATES THEN TONE_TEMPLATES[name]
    ELSE TONE_TEMPLATES["friendly"]
LengthOrDefault(name) ==
    IF name \in DOMAIN LENGTH_MULTIPLIERS THEN LENGTH_MULTIPLIERS[name]
    ELSE Tenths(10)
ModelOrDefault(name) ==
    IF name \in DOMAIN MODEL_CHARACTERISTICS THEN MODEL_CHARACTERISTICS[name]
    ELSE MODEL_CHARACTERISTICS["gpt-3.5-turbo"]

\* C15: when tone, model or responseLength is outside the known sets, the
\* call returns a text, and for the style the hash selects it is the text
\* of the friendly tone template, of the gpt-3.5-turbo characteristics and
\* of the length multiplier 1.0 respectively.
C15_UnknownFallsBack ==
    replyCall.kind = "reply" =>
        LET o == replyCall.options
            text == replyCall.out.message.text
        IN /\ text.t = "string"
           /\ text = ReplyTextOf(replyCall.out.style, replyCall.userText,
                                 ToneOrDefault(o.tone),
                                 LengthOrDefault(o.responseLength),
                                 ModelOrDefault(o.model),
                                 AttachmentMention(replyCall.attachments))
\* C15 for the names that no object inherits
C15_PlainUnknownFallsBack ==
    (replyCall.kind = "reply"
     /\ replyCall.options.tone \notin ObjectPrototypeKeys
     /\ replyCall.options.responseLength \notin ObjectPrototypeKeys
     /\ replyCall.options.model \notin ObjectPrototypeKeys)
        => LET o == replyCall.options
               text == replyCall.out.message.text
           IN /\ text.t = "string"
              /\ text = ReplyTextOf(replyCall.out.style, replyCall.userText,
                                    ToneOrDefault(o.tone),
                                    LengthOrDefault(o.responseLength),
                                    ModelOrDefault(o.model),
                                    AttachmentMention(replyCall.attachments))
C15_WitnessPlainUnknown ==
    /\ replyCall.kind = "reply"
    /\ replyCall.options.tone = "unknown_tone"
    /\ replyCall.options.responseLength = "unknown_length"
    /\ replyCall.options.model = "unknown_model"
    /\ replyCall.out.style = "summary"

\* C16: the reply text is a non-empty string, and in the styles summary,
\* bullets, steps, definition_example and qa one of its pieces is the
\* closing phrase of the tone template (the friendly one for an unknown
\* tone).
C16_NonEmptyWithClosing ==
    replyCall.kind = "reply" =>
        LET text == replyCall.out.message.text IN
        /\ text.t = "string"
        /\ \E i \in 1..Len(text.segs) : text.segs[i] # ""
        /\ replyCall.out.style # "short_quip" =>
              \E i \in 1..Len(text.segs) :
                  text.segs[i] = ToneOrDefault(replyCall.options.tone).closing
\* C16 for the names that no object inherits
C16_PlainNonEmptyWithClosing ==
    (replyCall.kind = "reply"
     /\ replyCall.options.tone \notin ObjectPrototypeKeys
     /\ replyCall.options.responseLength \notin ObjectPrototypeKeys
     /\ replyCall.options.model \notin ObjectPrototypeKeys)
        => LET text == replyCall.out.message.text IN
           /\ text.t = "string"
           /\ \E i \in 1..Len(text.segs) : text.segs[i] # ""
           /\ replyCall.out.style # "short_quip" =>
                 \E i \in 1..Len(text.segs) :
                     text.segs[i] = ToneOrDefault(replyCall.options.tone).closing

\* --------------------------------------- claims on the schema helpers
\* C17: migrateStorageData(data, v) returns data itself, unchanged, when
\* data is not an object, has no _schemaVersion field, or has
\* _schemaVersion equal to v.
C17_MigrateIdentity ==
    (migrateCall.kind = "migrate"
     /\ (\/ ~HasVersion(migrateCall.data)
         \/ migrateCall.data.fields[VersionField]
               = Str(migrateCall.expectedVersion)))
        => /\ migrateCall.out.result = migrateCall.data
           /\ migrateCall.out.same
           /\ migrateCall.out.input = migrateCall.data
           /\ migrateCall.out.warns = <<>>
C17_Witness ==
    /\ migrateCall.kind = "migrate"
    /\ HasVersion(migrateCall.data)
    /\ migrateCall.expectedVersion = "0.9.0"
    /\ migrateCall.data.fields[VersionField] = Str("0.9.0")
    /\ migrateCall.out.result = migrateCall.data
C17_WitnessNoVersion ==
    /\ migrateCall.kind = "migrate"
    /\ migrateCall.data.t = "Object"
    /\ ~HasVersion(migrateCall.data)
    /\ migrateCall.out.result = migrateCall.data

\* the versions migrateStorageData knows how to migrate from
OlderVersions == {Str("0.9.0")}
\* C18: when _schemaVersion is present, differs from expectedVersion and is
\* not a recognized older version, migrateStorageData returns null and
\* warns with a message starting 'Unknown schema version'.
C18_UnknownVersionIsNull ==
    (migrateCall.kind = "migrate"
     /\ HasVersion(migrateCall.data)
     /\ migrateCall.data.fields[VersionField]
           # Str(migrateCall.expectedVersion)
     /\ migrateCall.data.fields[VersionField] \notin OlderVersions)
        => /\ migrateCall.out.result = Null
           /\ \E i \in 1..Len(migrateCall.out.warns) :
                 migrateCall.out.warns[i] =
                    "Unknown schema version: "
                    \o VersionText(migrateCall.data.fields[VersionField])
\* C18 for the versions that convert to a string: null is returned and the
\* warning is 'Unknown schema version: ' followed by the version.
C18_PrintableUnknownVersionIsNull ==
    (migrateCall.kind = "migrate"
     /\ HasVersion(migrateCall.data)
     /\ migrateCall.data.fields[VersionField]
           # Str(migrateCall.expectedVersion)
     /\ migrateCall.data.fields[VersionField] \notin OlderVersions
     /\ ~ToStringThrows(migrateCall.data.fields[VersionField]))
        => /\ migrateCall.out.result = Null
           /\ migrateCall.out.warns =
                 <<"Unknown schema version: "
                   \o VersionText(migrateCall.data.fields[VersionField])>>
\* C18 in every case: an unknown version never raises, it returns null and
\* leaves one warning.
C18_UnknownVersionNullAndWarned ==
    (migrateCall.kind = "migrate"
     /\ HasVersion(migrateCall.data)
     /\ migrateCall.data.fields[VersionField]
           # Str(migrateCall.expectedVersion)
     /\ migrateCall.data.fields[VersionField] \notin OlderVersions)
        => /\ migrateCall.out.result = Null
           /\ Len(migrateCall.out.warns) = 1
C18_Witness ==
    /\ migrateCall.kind = "migrate"
    /\ HasVersion(migrateCall.data)
    /\ migrateCall.data.fields[VersionField] = Str("99.0.0")
    /\ migrateCall.expectedVersion = "1.0.0"
    /\ migrateCall.out.result = Null
    /\ migrateCall.out.warns = <<"Unknown schema version: 99.0.0">>

\* C19: when _schemaVersion is '0.9.0' and differs from expectedVersion,
\* migrateStorageData returns a new object with every other field of data
\* and _schemaVersion = expectedVersion, and data itself is not modified.
C19_OlderVersionMigrated ==
    (migrateCall.kind = "migrate"
     /\ HasVersion(migrateCall.data)
     /\ migrateCall.data.fields[VersionField] = Str("0.9.0")
     /\ migrateCall.expectedVersion # "0.9.0")
        => LET data == migrateCall.data
               result == migrateCall.out.result
           IN /\ result.t = "Object"
              /\ DOMAIN result.fields = DOMAIN data.fields
              /\ \A f \in DOMAIN data.fields \ {VersionField} :
                    result.fields[f] = data.fields[f]
              /\ result.fields[VersionField] = Str(migrateCall.expectedVersion)
              /\ ~migrateCall.out.same
              /\ migrateCall.out.input = data
C19_Witness ==
    /\ migrateCall.kind = "migrate"
    /\ HasVersion(migrateCall.data)
    /\ migrateCall.data.fields[VersionField] = Str("0.9.0")
    /\ migrateCall.expectedVersion = "2.0.0"
    /\ migrateCall.out.result.t = "Object"
    /\ migrateCall.out.result.fields[VersionField] = Str("2.0.0")
    /\ migrateCall.out.result.fields["name"] = Str("test")

\* C20: createStorageData(payload) returns an object with every field of
\* payload at its value and _schemaVersion = STORAGE_SCHEMA_VERSION, also
\* when payload carries another _schemaVersion.
C20_CreateStamps ==
    migrateCall.kind = "create" =>
        LET payload == migrateCall.data
            result == migrateCall.out.result
            fields == IF payload.t = "Object" THEN DOMAIN payload.fields ELSE {}
        IN /\ result.t = "Object"
           /\ DOMAIN result.fields = fields \cup {VersionField}
           /\ \A f \in fields \ {VersionField} :
                 result.fields[f] = payload.fields[f]
           /\ result.fields[VersionField] = Str(STORAGE_SCHEMA_VERSION)
C20_Witness ==
    /\ migrateCall.kind = "create"
    /\ HasVersion(migrateCall.data)
    /\ migrateCall.data.fields[VersionField] = Str("99.0.0")
    /\ migrateCall.out.result.fields[VersionField] = Str("1.0.0")
    /\ migrateCall.out.result.fields["value"] = Num(MaxNum)

C21_WitnessTotalRefused ==
    /\ homeOp.kind = "select"
    /\ homeOp.error = <<[kind |-> "total", name |-> ""]>>
    /\ Len(attachedFiles) \in 1..(MAX_ATTACHMENTS - 1)

\* ------------------------------------ claims on the notification sound
\* C22: on every call of playNotificationSound in which creating or using
\* the audio context throws, no exception reaches the caller and the
\* warning 'Unable to play notification sound:' is logged.
C22_SoundFailureSwallowed ==
    soundCall.kind = "play" =>
        /\ ~soundCall.out.thrown
        /\ soundCall.out.failedAt # "none" =>
              soundCall.out.warns = <<"Unable to play notification sound:">>
\* a later call, on the context an earlier call created, throws when the
\* oscillator is started
C22_Witness ==
    /\ soundCall.kind = "play"
    /\ soundCall.n > 1
    /\ soundCall.before = "context"
    /\ soundCall.out.failedAt = "start"
    /\ soundCall.out.warns = <<"Unable to play notification sound:">>
\* the constructor throws, as in the hook's test
C22_WitnessNoContext ==
    /\ soundCall.kind = "play"
    /\ soundCall.out.failedAt = "new"
    /\ audioContextRef = "null"
    /\ soundCall.out.warns = <<"Unable to play notification sound:">>

\* ------------------------------------------ claims on sends and replies
\* C23: a send appends the user message at once and sets a reply timer;
\* when the timer fires one agent reply is appended, after the user message
\* that triggered it; a sent message that has no reply yet has its timer
\* pending, so that with timers firing it gets its reply.
C23_ReplyFollowsItsMessage ==
    /\ homeOp.kind = "send" =>
          /\ messages[Len(messages)].id = homeOp.id
          /\ messages[Len(messages)].sender = "user"
          /\ \E tm \in timers : tm.uid = homeOp.id
    /\ homeOp.kind = "reply" =>
          /\ messages[Len(messages)].id = homeOp.id
          /\ messages[Len(messages)].sender = "agent"
          /\ \E i \in 1..(Len(messages) - 1) :
                /\ messages[i].id = homeOp.uid
                /\ messages[i].sender = "user"
\* C23, the part on the timer that cannot be cancelled: a user message that
\* is the last of the conversation is waiting for its reply and has its
\* timer pending.
C23_WaitingMessageHasTimer ==
    (loaded /\ Len(messages) > 0 /\ messages[Len(messages)].sender = "user")
        => \E tm \in timers : tm.uid = messages[Len(messages)].id
\* C23 while the page stays loaded and the conversation is not cleared: the
\* send and the reply do what the claim says
C23_SendAndReplyStep ==
    [][((\E text \in Texts : HandleSendMessage(text)) =>
           (/\ Len(messages') = Len(messages) + 1
            /\ messages'[Len(messages')].sender = "user"
            /\ \E tm \in timers' \ timers :
                  tm.uid = messages'[Len(messages')].id))
       /\ ((\E tm \in timers : ReplyTimer(tm)) =>
           (/\ Len(messages') = Len(messages) + 1
            /\ messages'[Len(messages')].sender = "agent"
            /\ Cardinality(timers') = Cardinality(timers) - 1))]_vars

\* C27: the typing indicator is shown exactly while at least one reply is
\* pending, i.e. while a reply timer set by a send has not fired yet.
C27_TypingWhilePending ==
    loaded => (isTyping <=> timers # {})
\* C27 for sends that do not overlap: with at most one reply pending the
\* indicator is shown exactly while it is pending
C27_TypingWhileOnePending ==
    [][(loaded /\ loaded' /\ Cardinality(timers) <= 1
           /\ Cardinality(timers') <= 1 /\ (isTyping <=> timers # {}))
          => (isTyping' <=> timers' # {})]_vars

\* C28: once Clear Conversation is confirmed the conversation is the
\* default messages, and a step that is not a send leaves it so, also the
\* firing of a reply timer set before the clear.
C28_ClearedStaysDefault ==
    [][(homeOp.kind = "clear"
          /\ ~(\E text \in Texts : HandleSendMessage(text)))
          => (messages = defaultMessages /\ messages' = defaultMessages)]_vars
\* C28 at the clear itself: the conversation is the default messages
C28_ClearedIsDefault ==
    homeOp.kind = "clear" => messages = defaultMessages

\* C29: replies are appended in the order of the user messages that
\* triggered them: when a reply is appended, every reply still pending is
\* for a message sent later.
C29_RepliesInSendOrder ==
    homeOp.kind = "reply" => \A tm \in timers : tm.uid > homeOp.uid

\* ---------------------------------- claims on the generators' quantities
\* C24: for every response length and every model of the tables, the quip
\* divisor is at least 1 and the quip index addresses one of the four
\* quips; the bullet and step counts are at most 3 + examples, the example
\* count is at most the model's examples and the Q&A count at most 4.
C24_QuantitiesInRange ==
    replyCall.kind = "derive" =>
        LET q == replyCall.q
            examples == MODEL_CHARACTERISTICS[replyCall.model].examples
        IN /\ \A f \in DOMAIN q : ~q[f].nan
           /\ Ge(q.maxQuips, Whole(1))
           /\ Ge(q.quipIndex, Whole(0))
           /\ Gt(q.maxQuips, q.quipIndex)
           /\ Gt(Whole(4), q.quipIndex)
           /\ Ge(Add(Whole(3), examples), q.maxBullets)
           /\ Ge(Add(Whole(3), examples), q.maxSteps)
           /\ Ge(examples, q.exampleCount)
           /\ Ge(Whole(4), q.qaCount)
\* the longest length with the model of most examples: the unclamped
\* values floor(2 + 3 + 2.5) = 7 and floor(3 + 2 * 2.5) = 8 are cut to 4
\* and 6
C24_Witness ==
    /\ replyCall.kind = "derive"
    /\ replyCall.responseLength = "detailed"
    /\ replyCall.model = "claude-3.5"
    /\ replyCall.q.maxQuips = Whole(4)
    /\ replyCall.q.qaCount = Whole(4)
    /\ replyCall.q.maxBullets = Whole(6)
    /\ replyCall.q.quipIndex = Whole(3)
\* the shortest length with a model of one example: no example at all
C24_WitnessShort ==
    /\ replyCall.kind = "derive"
    /\ replyCall.responseLength = "short"
    /\ replyCall.model = "gpt-3.5-turbo"
    /\ replyCall.q.exampleCount = Whole(0)
    /\ replyCall.q.maxQuips = Whole(3)

\* C26: when the stored conversation was persisted by a bundle with an older
\* STORAGE_VERSION, the first load under the new STORAGE_VERSION resets
\* messages, pending attachments and options to their defaults, and the
\* persisted version marker becomes the new version.
C26_OlderVersionForcesReset ==
    [][(/\ build \in {Builds[i] : i \in 1..(Len(Builds) - 1)}
        /\ pageStore[K] # NoItem
        /\ build' = STORAGE_VERSION)
       => (/\ messages' = defaultMessages
           /\ attachedFiles' = <<>>
           /\ options' = DEFAULT_CHAT_OPTIONS
           /\ pageStore'[VersionKey] = JStr(STORAGE_VERSION))]_vars

\* C26, the cause: the marker is written by the reset alone, and the reset
\* needs a marker that differs, so no bundle ever writes one.
C26_MarkerNeverWritten == pageStore[VersionKey] = NoItem

\* C30: migrateStorageData is idempotent: migrating the result of a
\* migration again, with the same expected version, returns that result, also
\* when the first result is null.
C30_MigrateIdempotent ==
    migrateCall.kind = "again" =>
        migrateCall.out.result = migrateCall.first.result

\* C30: a second migration of data that the first one migrated from 0.9.0
C30_Witness ==
    /\ migrateCall.kind = "again"
    /\ HasVersion(migrateCall.original)
    /\ migrateCall.original.fields[VersionField] = Str("0.9.0")
    /\ migrateCall.first.result # migrateCall.original
    /\ migrateCall.first.result # Null
    /\ migrateCall.out.result = migrateCall.first.result

\* C30: a second migration after the first one returned null
C30_WitnessNull ==
    /\ migrateCall.kind = "again"
    /\ migrateCall.original # Null
    /\ migrateCall.first.result = Null
    /\ migrateCall.out.result = Null

C25_HookNotificationNeverWrites ==
    [][\A t \in Tabs :
          Len(inbox'[t]) < Len(inbox[t]) /\ lastOp'.kind = "storage"
          => /\ store' = store
             /\ \A u \in Tabs : Len(inbox'[u]) <= Len(inbox[u])]_vars

\* C25, the page: a notification for the messages, the attachments or the
\* options, or one that carries the page's own STORAGE_VERSION, writes
\* nothing.
C25_OwnVersionNotificationNeverWrites ==
    [][(/\ homeOp'.kind = "storage"
        /\ Len(inbox'["A"]) < Len(inbox["A"])
        /\ \/ Head(inbox["A"]).key # VersionKey
           \/ Head(inbox["A"]).newValue = JStr(build))
       => pageStore' = pageStore]_vars

====
